---- MODULE Spec2Model ----
(***************************************************************************)
(* BridgeOnline: the auction, the play and the scoring of a board.         *)
(*                                                                         *)
(*   - the bid route, POST /api/games/[gameId]/bid, with the functions of  *)
(*     lib/game/bidding.ts it calls (isBiddingComplete, determineContract) *)
(*     and the one it leaves commented out (validateBidAction);            *)
(*   - lib/game/biddingEngine.ts (validateBid, isBiddingComplete,          *)
(*     determineContract), the second implementation of the same rules;    *)
(*   - lib/game/gameEngine.ts (getDealerForBoard, initializeGame) and the  *)
(*     deal of lib/game/cardUtils.ts;                                      *)
(*   - the play route, POST /api/games/[gameId]/play;                      *)
(*   - lib/game/playing.ts (isValidPlay, determineTrickWinner),            *)
(*     lib/game/scoring.ts (calculateScore), dealCards of cardUtils.ts and *)
(*     the two isBidHigher, each called on its own;                        *)
(*   - the bid route with several requests under way at the same time;     *)
(*   - the join, invitation and seat routes of a room, with several        *)
(*     requests under way at the same time.                                *)
(*                                                                         *)
(* A player is identified by its userId; gamePlayers gives each userId its *)
(* seat.  undefined / null of the source are the No... values below.       *)
(***************************************************************************)
EXTENDS Integers, Sequences, FiniteSets, TLC

VARIABLES
    boardNumber,      \* game.boardNumber
    dealerId,         \* game.dealerId
    phase,            \* game.phase
    currentPlayerId,  \* game.currentPlayerId
    declarerId,       \* game.declarerId
    bidHistory,       \* game.gameState.bidHistory (bid route: BidAction[])
    currentBid,       \* game.gameState.currentBid
    contract,         \* game.gameState.contract
    response,         \* the reply to the last request
    gameState,        \* biddingEngine.ts: the gameState validateBid reads
    currentPlayerSeat,\* biddingEngine.ts: the seat on turn passed to validateBid
    validation,       \* biddingEngine.ts: the result of the last validateBid
    deck,             \* game.deck
    hands,            \* game.gameState.hands
    currentTrick,     \* game.gameState.currentTrick
    tricks,           \* game.gameState.tricks
    gameResult,       \* the gameResult row of the game
    playRequest,      \* the last request to the play route
    fnArgs,           \* the arguments of the last call of a function of lib/game
    fnResult,         \* <<what that call returned>>, <<>> before it returns
    inFlight,         \* the requests to the bid route, each with the game it read
    room              \* a game room: its gamePlayer rows, its invitations and the
                      \* requests to the join, invitation and seat routes

vars == <<boardNumber, dealerId, phase, currentPlayerId, declarerId, bidHistory,
          currentBid, contract, response, gameState, currentPlayerSeat, validation,
          deck, hands, currentTrick, tricks, gameResult, playRequest, fnArgs, fnResult, inFlight,
          room>>

routeVars == <<boardNumber, dealerId, phase, currentPlayerId, declarerId,
               bidHistory, currentBid, contract, response>>

engineVars == <<gameState, currentPlayerSeat, validation>>

playVars == <<deck, hands, currentTrick, tricks, gameResult, playRequest>>

fnVars == <<fnArgs, fnResult>>

raceVars == <<inFlight, room>>

----------------------------------------------------------------------------
(* Bounds of the model.                                                    *)

\* The calls bid one of the MaxBids lowest bids in the strains BidSuits.
MaxBids == 3

\* The bid route accepts any call, so its histories are cut at MaxCalls calls.
MaxCalls == 5

\* The auctions driven through validateBid are cut at MaxEngineCalls calls.
MaxEngineCalls == 8

\* The auctions in which every call respects the rules are not cut: they bid
\* one of the MaxLegalBids lowest bids.
MaxLegalBids == 2

\* The requests to the bid route that are under way at the same time
MaxRequests == 2

\* The requests to the join, invitation and seat routes of a room
MaxRoomRequests == 2

\* The longest auction handed to the two isBiddingComplete
MaxAuction == 6

\* The strains the model bids in, lowest first.  SUIT_ORDER is defined on all five.
BidSuits == <<"H", "NT">>

\* bidSchema: level: z.number().int().min(1).max(7)
MAX_LEVEL == 7

\* 1H, 1NT, 2H, 2NT, ... : the place of a bid among the bids in BidSuits
BidRank(level, suit) ==
    (level - 1) * Len(BidSuits) + (CHOOSE i \in 1..Len(BidSuits) : BidSuits[i] = suit)

AllBids == [level : 1..MAX_LEVEL, suit : {BidSuits[i] : i \in 1..Len(BidSuits)}]

Bids == { b \in AllBids : BidRank(b.level, b.suit) <= MaxBids }

LegalBids == { b \in AllBids : BidRank(b.level, b.suit) <= MaxLegalBids }

----------------------------------------------------------------------------
(* Values.                                                                 *)

Seats == {"NORTH", "EAST", "SOUTH", "WEST"}

\* A bid route request without a "bid" object (the schema makes it optional).
NoBid == [level |-> 0, suit |-> "none", doubled |-> FALSE, redoubled |-> FALSE]

NoPlayer == "none"

\* determineContract's null
NoContract ==
    [level |-> 0, suit |-> "none", doubled |-> FALSE, redoubled |-> FALSE,
     declarer |-> NoPlayer, dummy |-> NoPlayer]

\* Array.prototype.find / pop on an empty result
NoAction == [type |-> "none", player |-> NoPlayer, seat |-> "none", bid |-> NoBid]

\* The four players of the game: one user in each seat.
gamePlayers ==
    { [userId |-> "uN", seat |-> "NORTH"], [userId |-> "uE", seat |-> "EAST"],
      [userId |-> "uS", seat |-> "SOUTH"], [userId |-> "uW", seat |-> "WEST"] }

UserIds == { p.userId : p \in gamePlayers }

\* The users that send requests: the four players and one user outside the game.
Users == UserIds \cup {"uX"}

NoPlayerRec == [userId |-> NoPlayer, seat |-> "none"]

\* players.find(p => p.userId === id), undefined as NoPlayerRec
findByUserId(players, id) ==
    IF \E p \in players : p.userId = id
    THEN CHOOSE p \in players : p.userId = id
    ELSE NoPlayerRec

\* players.find(p => p.seat === seat)
findBySeat(players, seat) ==
    IF \E p \in players : p.seat = seat
    THEN CHOOSE p \in players : p.seat = seat
    ELSE NoPlayerRec

\* Array.prototype.indexOf on a sequence, 0-based, -1 when absent
indexOf(seq, x) ==
    IF \E i \in 1..Len(seq) : seq[i] = x
    THEN (CHOOSE i \in 1..Len(seq) : seq[i] = x /\ \A j \in 1..(i-1) : seq[j] # x) - 1
    ELSE -1

\* seq[i] with a 0-based index, undefined as "none"
at0(seq, i) == IF i >= 0 /\ i < Len(seq) THEN seq[i + 1] ELSE "none"

----------------------------------------------------------------------------
(* lib/constants/cards.ts                                                  *)

SUIT_ORDER == [s \in {"C", "D", "H", "S", "NT"} |->
                 CASE s = "C" -> 1 [] s = "D" -> 2 [] s = "H" -> 3
                   [] s = "S" -> 4 [] s = "NT" -> 5]

----------------------------------------------------------------------------
(* lib/game/gameEngine.ts                                                  *)

\* initializeGame: const boardNumber = 1
InitialBoard == 1

\* The board numbers getDealerForBoard is evaluated for
MaxBoard == 8

getDealerForBoard(n) ==
    LET positions == <<"NORTH", "EAST", "SOUTH", "WEST">>
        index == (n - 1) % 4
    IN  at0(positions, index)

\* Get next player in clockwise order
gameEngine_getNextPlayer(current) ==
    LET order == <<"NORTH", "EAST", "SOUTH", "WEST">>
        currentIndex == indexOf(order, current)
    IN  at0(order, (currentIndex + 1) % 4)

----------------------------------------------------------------------------
(* lib/game/biddingEngine.ts                                               *)
(* A Bid is [player, type, level, suit]: player is a seat, type one of     *)
(* BID, PASS, DOUBLE, REDOUBLE; a call without level and suit has 0/"none".*)

NoEngineBid == [player |-> "none", type |-> "none", level |-> 0, suit |-> "none"]

\* gameState.currentBid === null
NoCurrentBid == [level |-> 0, suit |-> "none"]

\* determineContract's null
NoEngineContract ==
    [level |-> 0, suit |-> "none", declarer |-> "none",
     doubled |-> FALSE, redoubled |-> FALSE]

\* isBidHigher with >= for > in the comparison of the suits
engine_isBidHigher_OrEqual(newBid, curBid) ==
    IF curBid = NoCurrentBid THEN TRUE
    ELSE IF newBid.level > curBid.level THEN TRUE
    ELSE IF newBid.level < curBid.level THEN FALSE
    ELSE SUIT_ORDER[newBid.suit] >= SUIT_ORDER[curBid.suit]

engine_isBidHigher(newBid, curBid) ==
    IF curBid = NoCurrentBid THEN TRUE
    ELSE IF newBid.level > curBid.level THEN TRUE
    ELSE IF newBid.level < curBid.level THEN FALSE
    ELSE LET suitOrder == [s \in {"C", "D", "H", "S", "NT"} |->
                             CASE s = "C" -> 1 [] s = "D" -> 2 [] s = "H" -> 3
                               [] s = "S" -> 4 [] s = "NT" -> 5]
         IN  suitOrder[newBid.suit] > suitOrder[curBid.suit]

arePartners(seat1, seat2) ==
    \/ seat1 = "NORTH" /\ seat2 = "SOUTH"
    \/ seat1 = "SOUTH" /\ seat2 = "NORTH"
    \/ seat1 = "EAST" /\ seat2 = "WEST"
    \/ seat1 = "WEST" /\ seat2 = "EAST"

engine_getPartner(seat) ==
    CASE seat = "NORTH" -> "SOUTH" [] seat = "SOUTH" -> "NORTH"
      [] seat = "EAST" -> "WEST" [] seat = "WEST" -> "EAST"

engine_validateBid(bid, gs, seatOnTurn) ==
    IF bid.player # seatOnTurn THEN [valid |-> FALSE, error |-> "Not your turn"]
    ELSE
    LET history == gs.bidHistory
        curBid  == gs.currentBid
    IN  CASE bid.type = "BID" ->
               IF bid.level = 0 \/ bid.suit = "none"
               THEN [valid |-> FALSE, error |-> "Invalid bid format"]
               ELSE IF ~engine_isBidHigher([level |-> bid.level, suit |-> bid.suit], curBid)
               THEN [valid |-> FALSE, error |-> "Bid must be higher than current bid"]
               ELSE [valid |-> TRUE, error |-> ""]
          [] bid.type = "PASS" -> [valid |-> TRUE, error |-> ""]
          [] bid.type = "DOUBLE" ->
               IF curBid = NoCurrentBid
               THEN [valid |-> FALSE, error |-> "No bid to double"]
               ELSE
               LET lastBid == IF Len(history) = 0 THEN NoEngineBid
                              ELSE history[Len(history)]
               IN  IF lastBid = NoEngineBid \/ lastBid.type # "BID"
                   THEN [valid |-> FALSE, error |-> "Can only double a bid"]
                   ELSE IF gs.doubled
                   THEN [valid |-> FALSE, error |-> "Bid already doubled"]
                   ELSE IF arePartners(bid.player, lastBid.player)
                   THEN [valid |-> FALSE, error |-> "Can only double opponent's bid"]
                   ELSE [valid |-> TRUE, error |-> ""]
          [] bid.type = "REDOUBLE" ->
               IF ~gs.doubled
               THEN [valid |-> FALSE, error |-> "No doubled bid to redouble"]
               ELSE IF gs.redoubled
               THEN [valid |-> FALSE, error |-> "Already redoubled"]
               ELSE [valid |-> TRUE, error |-> ""]
          [] OTHER -> [valid |-> FALSE, error |-> "Invalid bid type"]

engine_isBiddingComplete(history) ==
    IF Len(history) < 4 THEN FALSE
    ELSE IF ~\E i \in 1..Len(history) : history[i].type = "BID" THEN FALSE
    ELSE \A i \in (Len(history) - 2)..Len(history) : history[i].type = "PASS"

\* engine_determineContract reading the Doubles and Redoubles of the whole history
engine_determineContract_AnyDouble(history) ==
    IF ~engine_isBiddingComplete(history) THEN NoEngineContract
    ELSE
    LET lastBidIndex ==
            CHOOSE i \in 1..Len(history) :
                /\ history[i].type = "BID"
                /\ \A j \in (i+1)..Len(history) : history[j].type # "BID"
        lastBid == history[lastBidIndex]
        partner == engine_getPartner(lastBid.player)
        Names(i) == /\ history[i].type = "BID"
                    /\ history[i].suit = lastBid.suit
                    /\ (history[i].player = lastBid.player
                          \/ history[i].player = partner)
    IN  [level |-> lastBid.level, suit |-> lastBid.suit,
         declarer |-> history[CHOOSE i \in 1..lastBidIndex :
                                 Names(i) /\ \A j \in 1..(i-1) : ~Names(j)].player,
         doubled |-> \E i \in 1..Len(history) : history[i].type = "DOUBLE",
         redoubled |-> \E i \in 1..Len(history) : history[i].type = "REDOUBLE"]

\* engine_determineContract without the scan for the first to name the strain
engine_determineContract_FinalBidder(history) ==
    IF ~engine_isBiddingComplete(history) THEN NoEngineContract
    ELSE
    LET lastBidIndex ==
            CHOOSE i \in 1..Len(history) :
                /\ history[i].type = "BID"
                /\ \A j \in (i+1)..Len(history) : history[j].type # "BID"
        lastBid == history[lastBidIndex]
    IN  [level |-> lastBid.level, suit |-> lastBid.suit, declarer |-> lastBid.player,
         doubled |-> \E i \in (lastBidIndex + 1)..Len(history) :
                         history[i].type = "DOUBLE",
         redoubled |-> \E i \in (lastBidIndex + 1)..Len(history) :
                         history[i].type = "REDOUBLE"]

engine_determineContract(history) ==
    IF ~engine_isBiddingComplete(history) THEN NoEngineContract
    ELSE
    \* the index of the last BID, 1-based; 0 is the source's -1
    LET lastBidIndex ==
            IF \E i \in 1..Len(history) : history[i].type = "BID"
            THEN CHOOSE i \in 1..Len(history) :
                    /\ history[i].type = "BID"
                    /\ \A j \in (i+1)..Len(history) : history[j].type # "BID"
            ELSE 0
    IN  IF lastBidIndex = 0 THEN NoEngineContract
        ELSE
        LET lastBid == history[lastBidIndex]
            doubled == \E i \in (lastBidIndex + 1)..Len(history) :
                           history[i].type = "DOUBLE"
            redoubled == \E i \in (lastBidIndex + 1)..Len(history) :
                           history[i].type = "REDOUBLE"
            partner == engine_getPartner(lastBid.player)
            Names(i) == /\ history[i].type = "BID"
                        /\ history[i].suit = lastBid.suit
                        /\ (history[i].player = lastBid.player
                              \/ history[i].player = partner)
            \* the scan from 0 to lastBidIndex stops at the first such bid
            declarer ==
                IF \E i \in 1..lastBidIndex : Names(i)
                THEN history[CHOOSE i \in 1..lastBidIndex :
                                Names(i) /\ \A j \in 1..(i-1) : ~Names(j)].player
                ELSE lastBid.player
        IN  [level |-> lastBid.level, suit |-> lastBid.suit, declarer |-> declarer,
             doubled |-> doubled, redoubled |-> redoubled]

----------------------------------------------------------------------------
(* lib/game/bidding.ts                                                     *)

\* The last / first element of a sequence of BidActions satisfying Test
lastWhere(h, Test(_)) ==
    IF \E i \in 1..Len(h) : Test(h[i])
    THEN h[CHOOSE i \in 1..Len(h) : Test(h[i]) /\ \A j \in (i+1)..Len(h) : ~Test(h[j])]
    ELSE NoAction

firstWhere(h, Test(_)) ==
    IF \E i \in 1..Len(h) : Test(h[i])
    THEN h[CHOOSE i \in 1..Len(h) : Test(h[i]) /\ \A j \in 1..(i-1) : ~Test(h[j])]
    ELSE NoAction

\* Array.prototype.slice(-n)
sliceLast(h, n) == SubSeq(h, IF Len(h) > n THEN Len(h) - n + 1 ELSE 1, Len(h))

bidding_isBidHigher(newBid, curBid) ==
    IF curBid = NoBid THEN TRUE
    ELSE IF newBid.level > curBid.level THEN TRUE
    ELSE IF newBid.level < curBid.level THEN FALSE
    ELSE SUIT_ORDER[newBid.suit] > SUIT_ORDER[curBid.suit]

\* The placeholder of the source: every player is of team NS.
bidding_getPlayerTeam(playerId) == "NS"

\* The placeholder of the source: every player is its own partner.
bidding_getPartner(playerId) == playerId

bidding_validateBidAction(action, history, curPlayer, lastBidTeam) ==
    IF action.player # curPlayer THEN [valid |-> FALSE, error |-> "Not your turn"]
    ELSE
    LET lastBid == lastWhere(history, LAMBDA b : b.type = "bid")
    IN  CASE action.type = "bid" ->
               IF action.bid = NoBid
               THEN [valid |-> FALSE, error |-> "Bid data required"]
               ELSE IF ~bidding_isBidHigher(action.bid, lastBid.bid)
               THEN [valid |-> FALSE, error |-> "Bid must be higher than current bid"]
               ELSE [valid |-> TRUE, error |-> ""]
          [] action.type = "pass" -> [valid |-> TRUE, error |-> ""]
          [] action.type = "double" ->
               IF lastBid = NoAction
               THEN [valid |-> FALSE, error |-> "No bid to double"]
               ELSE IF lastBid.bid.doubled \/ lastBid.bid.redoubled
               THEN [valid |-> FALSE, error |-> "Bid already doubled/redoubled"]
               ELSE IF bidding_getPlayerTeam(action.player) = lastBidTeam
               THEN [valid |-> FALSE, error |-> "Cannot double own team"]
               ELSE [valid |-> TRUE, error |-> ""]
          [] action.type = "redouble" ->
               IF lastBid = NoAction \/ ~lastBid.bid.doubled
               THEN [valid |-> FALSE, error |-> "No doubled bid to redouble"]
               ELSE IF lastBid.bid.redoubled
               THEN [valid |-> FALSE, error |-> "Already redoubled"]
               ELSE IF bidding_getPlayerTeam(action.player) # lastBidTeam
               THEN [valid |-> FALSE, error |-> "Cannot redouble opponent bid"]
               ELSE [valid |-> TRUE, error |-> ""]
          [] OTHER -> [valid |-> FALSE, error |-> "Invalid action type"]

\* bidding_isBiddingComplete asking for four Passes (slice(-4))
bidding_isBiddingComplete_FourPasses(history) ==
    IF Len(history) < 4 THEN FALSE
    ELSE \A i \in 1..Len(sliceLast(history, 4)) : sliceLast(history, 4)[i].type = "pass"

bidding_isBiddingComplete(history) ==
    IF Len(history) < 4 THEN FALSE
    ELSE \A i \in 1..Len(sliceLast(history, 3)) : sliceLast(history, 3)[i].type = "pass"

bidding_determineContract(history) ==
    IF ~bidding_isBiddingComplete(history) THEN NoContract
    ELSE
    LET lastBidAction == lastWhere(history, LAMBDA a : a.type = "bid")
    IN  IF lastBidAction = NoAction \/ lastBidAction.bid = NoBid THEN NoContract
        ELSE
        LET contractSuit == lastBidAction.bid.suit
            declarerTeam == bidding_getPlayerTeam(lastBidAction.player)
            firstBidder  == firstWhere(history, LAMBDA a :
                                /\ a.type = "bid"
                                /\ a.bid.suit = contractSuit
                                /\ bidding_getPlayerTeam(a.player) = declarerTeam)
        IN  IF firstBidder = NoAction THEN NoContract
            ELSE [level     |-> lastBidAction.bid.level,
                  suit      |-> lastBidAction.bid.suit,
                  doubled   |-> lastBidAction.bid.doubled,
                  redoubled |-> lastBidAction.bid.redoubled,
                  declarer  |-> firstBidder.player,
                  dummy     |-> bidding_getPartner(firstBidder.player)]

----------------------------------------------------------------------------
(* app/api/games/[gameId]/bid/route.ts                                     *)

\* bidRoute_getNextPlayer with the seats taken counter-clockwise
bidRoute_getNextPlayer_CounterClockwise(players, curPlayerId) ==
    LET seatOrder == <<"NORTH", "WEST", "SOUTH", "EAST">>
        curPlayer == findByUserId(players, curPlayerId)
    IN  IF curPlayer = NoPlayerRec THEN NoPlayerRec
        ELSE LET currentSeatIndex == indexOf(seatOrder, curPlayer.seat)
                 nextSeatIndex    == (currentSeatIndex + 1) % 4
                 nextSeat         == at0(seatOrder, nextSeatIndex)
             IN  findBySeat(players, nextSeat)

\* Get next player in clockwise order
bidRoute_getNextPlayer(players, curPlayerId) ==
    LET seatOrder == <<"NORTH", "EAST", "SOUTH", "WEST">>
        curPlayer == findByUserId(players, curPlayerId)
    IN  IF curPlayer = NoPlayerRec THEN NoPlayerRec
        ELSE LET currentSeatIndex == indexOf(seatOrder, curPlayer.seat)
                 nextSeatIndex    == (currentSeatIndex + 1) % 4
                 nextSeat         == at0(seatOrder, nextSeatIndex)
             IN  findBySeat(players, nextSeat)

\* Get player to left of declarer (who leads first trick)
getPlayerToLeftOfDeclarer(players, declarer) ==
    bidRoute_getNextPlayer(players, declarer).userId

\* The actions and payloads bidSchema lets through.  The payload of a pass,
\* double or redouble is stored but never read, and is left out.
ActionTypes == {"bid", "pass", "double", "redouble"}

Payloads(action) == IF action = "bid" THEN Bids \cup {NoBid} ELSE {NoBid}

Reply(status, error) == [status |-> status, error |-> error]

\* POST, lines 58-81: the checks that end the request before any call is read
bidRoute_checks(user) ==
    IF findByUserId(gamePlayers, user) = NoPlayerRec
    THEN Reply(403, "You are not in this game")
    ELSE IF phase # "BIDDING"
    THEN Reply(400, "Game is not in bidding phase")
    ELSE IF currentPlayerId # user
    THEN Reply(400, "Not your turn")
    ELSE Reply(200, "")

\* The handler storing the call in the history before its checks
PostBid_RecordThenCheck(user, action, bid) ==
    LET player == findByUserId(gamePlayers, user)
        bidAction == [type |-> action, player |-> user, seat |-> player.seat, bid |-> bid]
        nextPlayer == bidRoute_getNextPlayer(gamePlayers, user)
    IN  /\ bidHistory' = Append(bidHistory, bidAction)
        /\ response' = bidRoute_checks(user)
        /\ currentPlayerId' = IF bidRoute_checks(user).status = 200
                               THEN nextPlayer.userId ELSE currentPlayerId
        /\ UNCHANGED <<boardNumber, dealerId, phase, declarerId, currentBid, contract>>

\* POST: the whole handler, for the request {action, bid} of session user `user`.
\* `bid` is a member of Bids, or NoBid for a request without a bid object.
PostBid(user, action, bid) ==
    LET player == findByUserId(gamePlayers, user)
    IN  IF bidRoute_checks(user).status # 200 THEN
            /\ response' = bidRoute_checks(user)
            /\ UNCHANGED <<boardNumber, dealerId, phase, currentPlayerId, declarerId,
                           bidHistory, currentBid, contract>>
        ELSE
        LET bidAction == [type |-> action, player |-> user, seat |-> player.seat,
                          bid |-> IF bid = NoBid THEN NoBid
                                  ELSE [level |-> bid.level, suit |-> bid.suit,
                                        doubled |-> FALSE, redoubled |-> FALSE]]
            \* validateBidAction is commented out: nothing is validated here
            newHistory == Append(bidHistory, bidAction)
            nextPlayer == bidRoute_getNextPlayer(gamePlayers, user)
            biddingComplete == bidding_isBiddingComplete(newHistory)
            newContract == IF biddingComplete
                           THEN bidding_determineContract(newHistory)
                           ELSE NoContract
            newPhase == IF biddingComplete
                        THEN (IF newContract # NoContract THEN "PLAYING" ELSE "COMPLETED")
                        ELSE phase
        IN  /\ bidHistory' = newHistory
            /\ currentBid' = lastWhere(newHistory, LAMBDA b : b.type = "bid").bid
            /\ contract' = newContract
            /\ currentPlayerId' =
                 IF biddingComplete
                 THEN (IF newContract # NoContract
                       THEN getPlayerToLeftOfDeclarer(gamePlayers, newContract.declarer)
                       ELSE NoPlayer)
                 \* an undefined userId leaves the column as it is
                 ELSE IF nextPlayer = NoPlayerRec THEN currentPlayerId
                 ELSE nextPlayer.userId
            /\ phase' = newPhase
            /\ declarerId' = IF biddingComplete /\ newContract # NoContract
                             THEN newContract.declarer ELSE declarerId
            /\ response' = Reply(200, "")
            /\ UNCHANGED <<boardNumber, dealerId>>

----------------------------------------------------------------------------
(* The board as initializeGame creates it, and the bid route's requests.   *)

NoValidation == [valid |-> FALSE, error |-> "none"]

NoGameState == [bidHistory |-> <<>>, currentBid |-> NoCurrentBid,
                doubled |-> FALSE, redoubled |-> FALSE]

EngineIdle ==
    /\ gameState = NoGameState
    /\ currentPlayerSeat = "none"
    /\ validation = NoValidation

\* The bid route and biddingEngine.ts read neither the cards nor the tricks.
NoGameResult == [scoreNS |-> 0, scoreEW |-> 0, tricksWon |-> -1]

NoPlayRequest == [user |-> NoPlayer, card |-> <<>>]

PlayIdle ==
    /\ deck = <<>>
    /\ hands = <<>>
    /\ currentTrick = <<>>
    /\ tricks = <<>>
    /\ gameResult = NoGameResult
    /\ playRequest = NoPlayRequest

\* No function of lib/game has been called.
FnIdle ==
    /\ fnArgs = <<>>
    /\ fnResult = <<>>

\* The requests to the bid route that are followed from their read of the game
\* to their write
Requests == 1..MaxRequests

NoGame == [phase |-> "none", currentPlayerId |-> NoPlayer, declarerId |-> NoPlayer,
           bidHistory |-> <<>>, currentBid |-> NoBid, contract |-> NoContract]

\* A request that has not arrived
NoRequest == [pc |-> "idle", user |-> NoPlayer, action |-> "none", bid |-> NoBid,
              game |-> NoGame, reply |-> Reply(0, "")]

\* No room is followed
NoRoom == [gamePlayers |-> {}, invitations |-> <<>>, requests |-> <<>>]

NoneInFlight ==
    /\ inFlight = [r \in Requests |-> NoRequest]
    /\ room = NoRoom

initializeGame ==
    LET dealer == getDealerForBoard(InitialBoard)
        dealerPlayer == findBySeat(gamePlayers, dealer)
    IN  /\ boardNumber = InitialBoard
        /\ dealerId = dealerPlayer.userId
        /\ currentPlayerId = dealerPlayer.userId
        /\ phase = "BIDDING"
        /\ declarerId = NoPlayer
        /\ bidHistory = <<>>
        /\ currentBid = NoBid
        /\ contract = NoContract
        /\ response = Reply(0, "")

Init == initializeGame /\ EngineIdle /\ PlayIdle /\ FnIdle /\ NoneInFlight

\* A request is sent unless it would make the history longer than MaxCalls.
WithinBound(user) ==
    \/ Len(bidHistory) < MaxCalls
    \/ phase # "BIDDING"
    \/ currentPlayerId # user

\* The handler answers a request that is not of the player on turn in the
\* bidding phase before it reads the call: one call stands for all of them.
CallsOf(user) ==
    IF phase = "BIDDING" /\ currentPlayerId = user THEN ActionTypes ELSE {"pass"}

BidRequest ==
    \E user \in Users :
        \E action \in CallsOf(user) :
            \E bid \in Payloads(action) :
                /\ WithinBound(user)
                /\ PostBid(user, action, bid)
                /\ UNCHANGED <<engineVars, playVars, fnVars, raceVars>>

Next == BidRequest

Spec == Init /\ [][Next]_vars

----------------------------------------------------------------------------
(* The rules of the auction, as the specification states them: the seats,  *)
(* the partnerships, the order of the bids and the legal calls.            *)

Rotation == <<"NORTH", "EAST", "SOUTH", "WEST">>

RotationIndex(seat) == CHOOSE i \in 1..4 : Rotation[i] = seat

\* The seat k steps clockwise of `seat`
SeatAfter(seat, k) == Rotation[((RotationIndex(seat) - 1 + k) % 4) + 1]

Team(seat) == IF seat \in {"NORTH", "SOUTH"} THEN "NS" ELSE "EW"

Partner(seat) == SeatAfter(seat, 2)

SeatOf(userId) == (CHOOSE p \in gamePlayers : p.userId = userId).seat

UserAt(seat) == (CHOOSE p \in gamePlayers : p.seat = seat).userId

\* The dealer of board n
DealerOfBoard(n) == Rotation[((n - 1) % 4) + 1]

SuitRank(suit) ==
    CASE suit = "C" -> 1 [] suit = "D" -> 2 [] suit = "H" -> 3
      [] suit = "S" -> 4 [] suit = "NT" -> 5

\* Bid a is strictly higher than bid b
Higher(a, b) ==
    \/ a.level > b.level
    \/ a.level = b.level /\ SuitRank(a.suit) > SuitRank(b.suit)

\* A Bid call: a call of type "bid" that names a level and a strain
IsBid(a) == a.type = "bid" /\ a.bid # NoBid

HasBid(h) == \E i \in 1..Len(h) : IsBid(h[i])

LastBidIndex(h) == CHOOSE i \in 1..Len(h) : IsBid(h[i]) /\ \A j \in (i+1)..Len(h) : ~IsBid(h[j])

\* At least 4 calls, the last 3 of them Pass
AuctionOver(h) ==
    /\ Len(h) >= 4
    /\ \A i \in (Len(h) - 2)..Len(h) : h[i].type = "pass"

\* The standing bid has been doubled / redoubled
StandingDouble(h) ==
    HasBid(h) /\ \E i \in (LastBidIndex(h) + 1)..Len(h) : h[i].type = "double"

StandingRedouble(h) ==
    HasBid(h) /\ \E i \in (LastBidIndex(h) + 1)..Len(h) : h[i].type = "redouble"

\* The call (type, bid) of `seat` respects the rules after the calls h of an
\* auction opened by `dealer`
LegalCall(h, dealer, seat, type, bid) ==
    /\ ~AuctionOver(h)
    /\ seat = SeatAfter(dealer, Len(h))
    /\ CASE type = "bid" ->
              /\ bid # NoBid
              /\ HasBid(h) => Higher(bid, h[LastBidIndex(h)].bid)
         [] type = "pass" -> TRUE
         [] type = "double" ->
              /\ HasBid(h)
              /\ ~StandingDouble(h) /\ ~StandingRedouble(h)
              /\ Team(h[LastBidIndex(h)].seat) # Team(seat)
         [] type = "redouble" ->
              /\ StandingDouble(h) /\ ~StandingRedouble(h)
              /\ Team(h[LastBidIndex(h)].seat) = Team(seat)
         [] OTHER -> FALSE

\* Every call of h respects the rules
RuleRespecting(h, dealer) ==
    \A k \in 1..Len(h) :
        LegalCall(SubSeq(h, 1, k - 1), dealer, h[k].seat, h[k].type, h[k].bid)

----------------------------------------------------------------------------
(* The auctions of the bid route in which every call respects the rules.   *)

LegalRequest ==
    \E user \in UserIds, action \in ActionTypes :
        \E bid \in (IF action = "bid" THEN LegalBids ELSE {NoBid}) :
            /\ LegalCall(bidHistory, DealerOfBoard(boardNumber), SeatOf(user), action, bid)
            /\ PostBid(user, action, bid)
            /\ UNCHANGED <<engineVars, playVars, fnVars, raceVars>>

NextLegal == LegalRequest

SpecLegal == Init /\ [][NextLegal]_vars

----------------------------------------------------------------------------
(* An auction conducted through biddingEngine.ts: each call is handed to   *)
(* validateBid with the gameState and the seat on turn, and an accepted    *)
(* call is applied to the gameState.  The source holds no caller of        *)
(* validateBid; applyCall follows section 4.3 of the specification.        *)

EngineCalls ==
    { [type |-> "BID", level |-> b.level, suit |-> b.suit] : b \in Bids }
      \cup { [type |-> t, level |-> 0, suit |-> "none"] :
                t \in {"BID", "PASS", "DOUBLE", "REDOUBLE"} }

applyCall(gs, bid) ==
    [bidHistory |-> Append(gs.bidHistory, bid),
     currentBid |-> IF bid.type = "BID" THEN [level |-> bid.level, suit |-> bid.suit]
                    ELSE gs.currentBid,
     doubled    |-> CASE bid.type = "BID" -> FALSE
                      [] bid.type = "DOUBLE" -> TRUE
                      [] OTHER -> gs.doubled,
     redoubled  |-> CASE bid.type = "BID" -> FALSE
                      [] bid.type = "REDOUBLE" -> TRUE
                      [] OTHER -> gs.redoubled]

\* validateBid answers a seat that is not on turn before it reads the call:
\* one call stands for all of them.
EngineCallsOf(seat) ==
    IF seat = currentPlayerSeat THEN EngineCalls
    ELSE {[type |-> "PASS", level |-> 0, suit |-> "none"]}

SubmitCall ==
    \E seat \in Seats :
        \E call \in EngineCallsOf(seat) :
            LET bid == [player |-> seat, type |-> call.type,
                        level |-> call.level, suit |-> call.suit]
                result == engine_validateBid(bid, gameState, currentPlayerSeat)
            IN  /\ ~engine_isBiddingComplete(gameState.bidHistory)
                /\ Len(gameState.bidHistory) < MaxEngineCalls
                /\ validation' = result
                /\ IF result.valid
                   THEN /\ gameState' = applyCall(gameState, bid)
                        /\ currentPlayerSeat' = gameEngine_getNextPlayer(currentPlayerSeat)
                   ELSE UNCHANGED <<gameState, currentPlayerSeat>>
                /\ UNCHANGED <<routeVars, playVars, fnVars, raceVars>>

\* Any seat deals.
InitEngine ==
    /\ initializeGame
    /\ gameState = NoGameState
    /\ currentPlayerSeat \in Seats
    /\ validation = NoValidation
    /\ PlayIdle
    /\ FnIdle
    /\ NoneInFlight

NextEngine == SubmitCall

SpecEngine == InitEngine /\ [][NextEngine]_vars

----------------------------------------------------------------------------
(* Claims about the bid route.                                             *)

Settled == phase = "PLAYING" /\ contract # NoContract

PassedOut == phase = "COMPLETED" /\ contract = NoContract

\* The longest auction over n bids: 3 passes, then for each bid the bid,
\* 2 passes, a double, 2 passes, a redouble and 2 passes, then a last pass.
MaxAuctionLength(n) == 3 + 9 * n + 1

\* C1: every auction of the bid route in which each call respects the rules
\* (the seat on turn calls, a bid is strictly higher than the bid before it,
\* doubles and redoubles are legal) ends after finitely many calls, and ends
\* in exactly one of: contract settled (PLAYING, a contract), passed out
\* (COMPLETED, no contract).  Each call makes the history one call longer; as
\* long as the route holds the auction open the rules do too (a Pass is
\* legal), the history is shorter than the longest auction, and the call of
\* the seat on turn is accepted.
C1_AuctionTerminates ==
    /\ [](phase # "BIDDING" => (Settled \/ PassedOut) /\ ~(Settled /\ PassedOut))
    /\ [](phase = "BIDDING" =>
            /\ ~AuctionOver(bidHistory)
            /\ Len(bidHistory) < MaxAuctionLength(Cardinality(LegalBids))
            /\ bidRoute_checks(UserAt(SeatAfter(DealerOfBoard(boardNumber),
                                                Len(bidHistory)))).status = 200)
    /\ [][Len(bidHistory') = Len(bidHistory) + 1]_vars

\* The longest auction, settled: every bid was doubled and redoubled
C1_Witness ==
    /\ Settled
    /\ Len(bidHistory) = MaxAuctionLength(Cardinality(LegalBids))
    /\ \E i \in 1..Len(bidHistory) : bidHistory[i].type = "redouble"

\* C2: the auction is over exactly when at least 4 calls were made and the
\* last 3 are Pass, never earlier and never continued; it is then passed out
\* (COMPLETED, no contract) exactly when the history holds no bid, and
\* otherwise PLAYING with the level and strain of the last bid of the history.
C2_Completion ==
    /\ (phase # "BIDDING") <=> AuctionOver(bidHistory)
    /\ \A k \in 0..(Len(bidHistory) - 1) : ~AuctionOver(SubSeq(bidHistory, 1, k))
    /\ AuctionOver(bidHistory) =>
         IF ~HasBid(bidHistory)
         THEN PassedOut
         ELSE /\ Settled
              /\ contract.level = bidHistory[LastBidIndex(bidHistory)].bid.level
              /\ contract.suit = bidHistory[LastBidIndex(bidHistory)].bid.suit

\* C3: the k-th accepted call (k = 0, 1, ...) is made by the seat k steps
\* clockwise of the dealer, the dealer of board n being Rotation[(n-1) mod 4];
\* a call of any other seat is answered "Not your turn".
C3_TurnOrder ==
    /\ \A n \in 1..MaxBoard : getDealerForBoard(n) = DealerOfBoard(n)
    /\ SeatOf(dealerId) = getDealerForBoard(boardNumber)
    /\ \A k \in 1..Len(bidHistory) :
          /\ bidHistory[k].seat = SeatAfter(DealerOfBoard(boardNumber), k - 1)
          /\ bidHistory[k].player = UserAt(bidHistory[k].seat)
    /\ phase = "BIDDING" =>
          \A u \in UserIds :
             IF SeatOf(u) = SeatAfter(DealerOfBoard(boardNumber), Len(bidHistory))
             THEN currentPlayerId = u /\ bidRoute_checks(u).status = 200
             ELSE bidRoute_checks(u).error = "Not your turn"
    /\ response.error = "Not your turn" => phase = "BIDDING"

\* The dealer calls again after the three others, and a call out of turn was refused
C3_Witness ==
    /\ Len(bidHistory) >= 5
    /\ bidHistory[5].seat = bidHistory[1].seat
    /\ response.error = "Not your turn"

\* C4: in every history of the bid route each Bid is strictly higher than the
\* Bid before it (a bid that is not is refused and not appended).
C4_BidsStrictlyHigher ==
    \A i, j \in 1..Len(bidHistory) :
        (i < j /\ IsBid(bidHistory[i]) /\ IsBid(bidHistory[j]))
            => Higher(bidHistory[j].bid, bidHistory[i].bid)

\* C6: the declarer of a settled contract is of the partnership that made the
\* final bid (stated for the auctions in which every call respects the rules).
C6_DeclarerOfBiddingSide ==
    (Settled /\ RuleRespecting(bidHistory, DealerOfBoard(boardNumber)))
        => Team(SeatOf(contract.declarer))
             = Team(bidHistory[LastBidIndex(bidHistory)].seat)

\* C7: the dummy of a settled contract is the player opposite the declarer,
\* never the declarer (stated for the auctions in which every call respects
\* the rules).
C7_DummyIsPartner ==
    (Settled /\ RuleRespecting(bidHistory, DealerOfBoard(boardNumber)))
        => /\ contract.dummy = UserAt(Partner(SeatOf(contract.declarer)))
           /\ contract.dummy # contract.declarer

\* C9: validateBidAction refuses a Double with "Cannot double own team"
\* exactly when the most recent bid is of the acting seat's own partnership.
C9_DoubleOwnSideOnly ==
    HasBid(bidHistory) =>
        \A u \in UserIds :
            LET lastBidTeam == Team(bidHistory[LastBidIndex(bidHistory)].seat)
                double == [type |-> "double", player |-> u, seat |-> SeatOf(u),
                           bid |-> NoBid]
                result == bidding_validateBidAction(double, bidHistory, u, lastBidTeam)
            IN  (result.error = "Cannot double own team")
                    <=> (Team(SeatOf(u)) = lastBidTeam)

----------------------------------------------------------------------------
(* Claims about biddingEngine.ts.                                          *)

EngineHistory == gameState.bidHistory

EngineLastBidIndex(h) ==
    CHOOSE i \in 1..Len(h) : h[i].type = "BID" /\ \A j \in (i+1)..Len(h) : h[j].type # "BID"

EngineHasBid(h) == \E i \in 1..Len(h) : h[i].type = "BID"

\* North 1H, East Pass, South 2H, then three Passes
ExampleAuction ==
    << [player |-> "NORTH", type |-> "BID", level |-> 1, suit |-> "H"],
       [player |-> "EAST", type |-> "PASS", level |-> 0, suit |-> "none"],
       [player |-> "SOUTH", type |-> "BID", level |-> 2, suit |-> "H"],
       [player |-> "WEST", type |-> "PASS", level |-> 0, suit |-> "none"],
       [player |-> "NORTH", type |-> "PASS", level |-> 0, suit |-> "none"],
       [player |-> "EAST", type |-> "PASS", level |-> 0, suit |-> "none"] >>

\* C5: for a completed auction with a bid in it, determineContract's declarer
\* is the seat of the final bidder's partnership that was the first, from the
\* start of the auction, to bid the strain of the contract; a bid of that
\* strain by an opponent does not count.
C5_DeclarerFirstToName ==
    LET h == EngineHistory
    IN  (engine_isBiddingComplete(h) /\ EngineHasBid(h)) =>
          LET c == engine_determineContract(h)
              final == h[EngineLastBidIndex(h)]
              side == {final.player, Partner(final.player)}
          IN  /\ c.level = final.level /\ c.suit = final.suit
              /\ c.declarer \in side
              /\ \E i \in 1..Len(h) :
                    /\ h[i].type = "BID" /\ h[i].suit = c.suit
                    /\ h[i].player = c.declarer
                    /\ \A j \in 1..(i-1) :
                          ~(h[j].type = "BID" /\ h[j].suit = c.suit /\ h[j].player \in side)
              /\ h = ExampleAuction => c.declarer = "NORTH" /\ c.level = 2 /\ c.suit = "H"

\* A completed auction whose declarer is not the final bidder
C5_Witness ==
    /\ engine_isBiddingComplete(EngineHistory)
    /\ engine_determineContract(EngineHistory).declarer
         # EngineHistory[EngineLastBidIndex(EngineHistory)].player

\* C8: validateBid accepts a Double of the seat on turn whenever the most
\* recent bid is of the other side and is neither doubled nor redoubled, with
\* or without Passes after that bid.
C8_DoubleAfterPasses ==
    LET h == EngineHistory
        double == [player |-> currentPlayerSeat, type |-> "DOUBLE",
                   level |-> 0, suit |-> "none"]
    IN  ( /\ EngineHasBid(h)
          /\ ~engine_isBiddingComplete(h)
          /\ Team(h[EngineLastBidIndex(h)].player) # Team(currentPlayerSeat)
          /\ ~gameState.doubled /\ ~gameState.redoubled )
        => engine_validateBid(double, gameState, currentPlayerSeat).valid

\* C10: validateBid refuses a Redouble of a seat of the doubler's side, and a
\* Redouble when no double stands.
C10_RedoubleOwnSideOnly ==
    LET h == EngineHistory
        redouble == [player |-> currentPlayerSeat, type |-> "REDOUBLE",
                     level |-> 0, suit |-> "none"]
        result == engine_validateBid(redouble, gameState, currentPlayerSeat)
        Doubles == { i \in 1..Len(h) : h[i].type = "DOUBLE" }
        doubler == h[CHOOSE i \in Doubles : \A j \in Doubles : j <= i].player
    IN  /\ (gameState.doubled /\ ~gameState.redoubled /\ Doubles # {}
              /\ Team(doubler) = Team(currentPlayerSeat)) => ~result.valid
        /\ ~gameState.doubled => ~result.valid

\* C11: the contract of a completed auction is doubled exactly when a Double
\* was called after the final bid and redoubled exactly when a Redouble was;
\* the Doubles and Redoubles of bids that a later bid superseded do not count.
C11_FlagsAfterFinalBid ==
    LET h == EngineHistory
    IN  (engine_isBiddingComplete(h) /\ EngineHasBid(h)) =>
          LET c == engine_determineContract(h)
              last == EngineLastBidIndex(h)
          IN  /\ c.doubled <=> \E i \in (last + 1)..Len(h) : h[i].type = "DOUBLE"
              /\ c.redoubled <=> \E i \in (last + 1)..Len(h) : h[i].type = "REDOUBLE"

\* A completed auction in which a bid was doubled and then outbid: the
\* contract is not doubled
C11_Witness ==
    /\ engine_isBiddingComplete(EngineHistory)
    /\ \E i \in 1..EngineLastBidIndex(EngineHistory) : EngineHistory[i].type = "DOUBLE"
    /\ ~engine_determineContract(EngineHistory).doubled

\* C12: in the contract of a completed auction doubled and redoubled are
\* never both true.
C12_FlagsExclusive ==
    engine_isBiddingComplete(EngineHistory) =>
        ~( /\ engine_determineContract(EngineHistory).doubled
           /\ engine_determineContract(EngineHistory).redoubled )

----------------------------------------------------------------------------
(* lib/game/scoring.ts                                                     *)

ScoreSuits == {"C", "D", "H", "S", "NT"}

\* calculateBasePoints with no trump paid as a major suit: 30 a trick, without
\* the 10 more of the first trick
calculateBasePoints_FlatNT(level, suit) ==
    IF suit = "C" \/ suit = "D" THEN level * 20 ELSE level * 30

\* Calculate base points for a contract
calculateBasePoints(level, suit) ==
    IF suit = "NT" THEN 40 + (level - 1) * 30
    ELSE IF suit = "C" \/ suit = "D" THEN level * 20 ELSE level * 30

\* The penalty loop with the cost of the first undertrick for every undertrick
doubledPenalty_Flat(n, isVulnerable) == n * (IF isVulnerable THEN 200 ELSE 100)

\* The penalty loop of a doubled contract: undertrick i (0-based) costs
\* 100/200 for i = 0, 200/300 for i <= 2 and 300 after that
RECURSIVE doubledPenalty(_, _)
doubledPenalty(n, isVulnerable) ==
    IF n = 0 THEN 0
    ELSE LET i == n - 1
         IN  doubledPenalty(n - 1, isVulnerable)
               + (IF i = 0 THEN (IF isVulnerable THEN 200 ELSE 100)
                  ELSE IF i <= 2 THEN (IF isVulnerable THEN 300 ELSE 200)
                  ELSE 300)

Abs(n) == IF n < 0 THEN -n ELSE n

\* declarer is the declaring side, "NS" or "EW"; vulnerability is [NS, EW]
calculateScore(c, tricksWon, declarer, vulnerability) ==
    LET requiredTricks == 6 + c.level
        isVulnerable == vulnerability[declarer]
        overtricks == tricksWon - requiredTricks
        undertricks == requiredTricks - tricksWon
        made == overtricks >= 0
        basePoints == calculateBasePoints(c.level, c.suit)
        trickScore == IF c.doubled THEN basePoints * 2
                      ELSE IF c.redoubled THEN basePoints * 4
                      ELSE basePoints
        overtrickScore ==
            IF overtricks > 0
            THEN IF c.doubled THEN overtricks * (IF isVulnerable THEN 200 ELSE 100)
                 ELSE IF c.redoubled THEN overtricks * (IF isVulnerable THEN 400 ELSE 200)
                 ELSE overtricks * (IF c.suit = "C" \/ c.suit = "D" THEN 20 ELSE 30)
            ELSE 0
        gameBonus == IF trickScore >= 100 THEN (IF isVulnerable THEN 500 ELSE 300)
                     ELSE 50
        slamBonus == IF c.level = 6 THEN (IF isVulnerable THEN 750 ELSE 500)
                     ELSE IF c.level = 7 THEN (IF isVulnerable THEN 1500 ELSE 1000)
                     ELSE 0
        \* breakdown.doubleBonus is overwritten by the second test, the score is not
        doubleBonus == IF c.redoubled THEN 100 ELSE IF c.doubled THEN 50 ELSE 0
        doubleScore == (IF c.doubled THEN 50 ELSE 0) + (IF c.redoubled THEN 100 ELSE 0)
        penalty ==
            IF c.doubled
            THEN doubledPenalty(Abs(undertricks), isVulnerable)
                   * (IF c.redoubled THEN 2 ELSE 1)
            ELSE Abs(undertricks) * (IF isVulnerable THEN 100 ELSE 50)
        score == IF made
                 THEN trickScore + overtrickScore + gameBonus + slamBonus + doubleScore
                 ELSE -penalty
        breakdown ==
            IF made
            THEN [trickScore |-> trickScore, overtricks |-> overtrickScore,
                  gameBonus |-> gameBonus, slamBonus |-> slamBonus,
                  doubleBonus |-> doubleBonus, penalty |-> 0]
            ELSE [trickScore |-> 0, overtricks |-> 0, gameBonus |-> 0, slamBonus |-> 0,
                  doubleBonus |-> 0, penalty |-> penalty]
    IN  IF declarer = "NS"
        THEN [scoreNS |-> score, scoreEW |-> 0, breakdown |-> breakdown]
        ELSE [scoreNS |-> 0, scoreEW |-> score, breakdown |-> breakdown]

\* The 13 tricks of a board
TRICKS_PER_BOARD == 13

\* The calls of calculateScore: every contract, number of tricks, declaring
\* side and vulnerability
ScoreArgs ==
    [fn : {"calculateScore"},
     contract : [level : 1..MAX_LEVEL, suit : ScoreSuits,
                 doubled : BOOLEAN, redoubled : BOOLEAN],
     tricksWon : 0..TRICKS_PER_BOARD,
     declarer : {"NS", "EW"},
     vulnerability : [{"NS", "EW"} -> BOOLEAN]]

InitScore ==
    /\ initializeGame /\ EngineIdle /\ PlayIdle /\ NoneInFlight
    /\ fnArgs \in ScoreArgs
    /\ fnResult = <<>>

CallCalculateScore ==
    /\ fnArgs \in ScoreArgs
    /\ fnResult = <<>>
    /\ fnResult' = <<calculateScore(fnArgs.contract, fnArgs.tricksWon,
                                    fnArgs.declarer, fnArgs.vulnerability)>>
    /\ UNCHANGED <<routeVars, engineVars, playVars, fnArgs, raceVars>>

NextScore == CallCalculateScore

SpecScore == InitScore /\ [][NextScore]_vars

----------------------------------------------------------------------------
(* Claims about scoring.ts.                                                *)

Scored == fnResult # <<>>

Score == fnResult[1]

OtherSide(side) == IF side = "NS" THEN "EW" ELSE "NS"

ScoreOf(res, side) == IF side = "NS" THEN res.scoreNS ELSE res.scoreEW

\* C20: for a failed contract (tricksWon < 6 + level), whatever the doubling
\* and the vulnerability, the penalty is credited as a positive score to the
\* side that did not declare and the declaring side scores 0.
C20_PenaltyToDefenders ==
    (Scored /\ fnArgs.tricksWon < 6 + fnArgs.contract.level) =>
        /\ ScoreOf(Score, fnArgs.declarer) = 0
        /\ ScoreOf(Score, OtherSide(fnArgs.declarer)) = Score.breakdown.penalty
        /\ ScoreOf(Score, OtherSide(fnArgs.declarer)) > 0

----------------------------------------------------------------------------
(* lib/constants/cards.ts and lib/game/playing.ts.  A Card is the string    *)
(* `${Rank}${Suit}`, here the pair <<rank, suit>> of its two characters:   *)
(* card[0] is c[1] and card[1] is c[2].                                    *)

SUITS == <<"C", "D", "H", "S">>

RANKS == <<"2", "3", "4", "5", "6", "7", "8", "9", "T", "J", "Q", "K", "A">>

RANK_VALUES == [r \in {RANKS[i] : i \in 1..Len(RANKS)} |->
                  1 + (CHOOSE i \in 1..Len(RANKS) : RANKS[i] = r)]

\* The ranks and suits the calls of isValidPlay and determineTrickWinner are
\* drawn from: the first ranks of PlayRanks, in the suits PlaySuits.
PlayRanks == <<"2", "3", "K", "7", "A", "T">>

PlaySuits == {"C", "D", "H"}

\* isValidPlay is called with cards of the MaxHandRanks first ranks
MaxHandRanks == 2

\* determineTrickWinner is called with cards of the MaxTrickRanks first ranks
MaxTrickRanks == 4

CardsOfRanks(n) == { <<PlayRanks[i], suit>> : i \in 1..n, suit \in PlaySuits }

\* trumpSuit: Suit | 'NT' | null
Trumps == {"C", "D", "H", "S", "NT", "null"}

\* Array.prototype.includes
includes(seq, x) == \E i \in 1..Len(seq) : seq[i] = x

MustFollowSuit(ledSuit) ==
    CASE ledSuit = "C" -> "Must follow suit: C" [] ledSuit = "D" -> "Must follow suit: D"
      [] ledSuit = "H" -> "Must follow suit: H" [] ledSuit = "S" -> "Must follow suit: S"

\* isValidPlay answering 'Must follow suit' to every card off the led suit
isValidPlay_NoVoid(card, hand, trick, trumpSuit) ==
    IF ~includes(hand, card) THEN [valid |-> FALSE, error |-> "Card not in hand"]
    ELSE IF Len(trick) = 0 THEN [valid |-> TRUE, error |-> ""]
    ELSE IF card[2] # trick[1].card[2]
         THEN [valid |-> FALSE, error |-> MustFollowSuit(trick[1].card[2])]
         ELSE [valid |-> TRUE, error |-> ""]

\* Validate if a card play is legal
isValidPlay(card, hand, trick, trumpSuit) ==
    IF ~includes(hand, card) THEN [valid |-> FALSE, error |-> "Card not in hand"]
    ELSE IF Len(trick) = 0 THEN [valid |-> TRUE, error |-> ""]
    ELSE LET ledSuit == trick[1].card[2]
             cardSuit == card[2]
             hasLedSuit == \E i \in 1..Len(hand) : hand[i][2] = ledSuit
         IN  IF cardSuit # ledSuit /\ hasLedSuit
             THEN [valid |-> FALSE, error |-> MustFollowSuit(ledSuit)]
             ELSE [valid |-> TRUE, error |-> ""]

\* The loop of determineTrickWinner: the winning entry after the entries
\* trick[1..n] (trick[1] is the first card)
RECURSIVE winningCard(_, _, _)
winningCard(trick, n, trumpSuit) ==
    IF n = 1 THEN trick[1]
    ELSE LET winning == winningCard(trick, n - 1, trumpSuit)
             cur == trick[n]
             currentSuit == cur.card[2]
             winningSuit == winning.card[2]
             hasTrump == trumpSuit # "null" /\ trumpSuit # "NT"
         IN  IF hasTrump /\ currentSuit = trumpSuit /\ winningSuit # trumpSuit
             THEN cur
             ELSE IF hasTrump /\ winningSuit = trumpSuit /\ currentSuit # trumpSuit
             THEN winning
             ELSE IF currentSuit = winningSuit
                     /\ RANK_VALUES[cur.card[1]] > RANK_VALUES[winning.card[1]]
             THEN cur
             ELSE winning

\* determineTrickWinner taking every contract for a no-trump contract
determineTrickWinner_NoTrump(trick, trumpSuit) ==
    winningCard(trick, Len(trick), "NT").player

\* Determine the winner of a trick (called with a trick that is not empty)
determineTrickWinner(trick, trumpSuit) ==
    winningCard(trick, Len(trick), trumpSuit).player

\* The cards of a set as a hand, in the order of PlayRanks and of the suits
RECURSIVE HandOf(_)
HandOf(cards) ==
    IF cards = {} THEN <<>>
    ELSE LET Place(c) == 10 * (CHOOSE i \in 1..Len(SUITS) : SUITS[i] = c[2])
                            + (CHOOSE i \in 1..Len(PlayRanks) : PlayRanks[i] = c[1])
             first == CHOOSE c \in cards : \A d \in cards : Place(c) <= Place(d)
         IN  <<first>> \o HandOf(cards \ {first})

\* The calls of isValidPlay: a card, a hand, an empty trick or a trick with
\* its first card (the only one isValidPlay reads), and a trump
ValidPlayArgs ==
    [fn : {"isValidPlay"},
     card : CardsOfRanks(MaxHandRanks),
     hand : { HandOf(h) : h \in SUBSET CardsOfRanks(MaxHandRanks) },
     currentTrick : {<<>>} \cup { <<[card |-> c, player |-> "uN"]>> :
                                     c \in CardsOfRanks(MaxHandRanks) },
     trumpSuit : Trumps]

InitValidPlay ==
    /\ initializeGame /\ EngineIdle /\ PlayIdle /\ NoneInFlight
    /\ fnArgs \in ValidPlayArgs
    /\ fnResult = <<>>

CallIsValidPlay ==
    /\ fnArgs \in ValidPlayArgs
    /\ fnResult = <<>>
    /\ fnResult' = <<isValidPlay(fnArgs.card, fnArgs.hand, fnArgs.currentTrick,
                                 fnArgs.trumpSuit)>>
    /\ UNCHANGED <<routeVars, engineVars, playVars, fnArgs, raceVars>>

NextValidPlay == CallIsValidPlay

SpecValidPlay == InitValidPlay /\ [][NextValidPlay]_vars

\* The calls of determineTrickWinner: four distinct cards, played in turn
\* from North, and a trump
TrickPlayers == <<"uN", "uE", "uS", "uW">>

TrickArgs ==
    { [fn |-> "determineTrickWinner",
       trick |-> [i \in 1..4 |-> [card |-> cs[i], player |-> TrickPlayers[i]]],
       trumpSuit |-> t] :
         cs \in { q \in [1..4 -> CardsOfRanks(MaxTrickRanks)] :
                    \A i, j \in 1..4 : i # j => q[i] # q[j] },
         t \in Trumps }

InitTrickWinner ==
    /\ initializeGame /\ EngineIdle /\ PlayIdle /\ NoneInFlight
    /\ fnArgs \in TrickArgs
    /\ fnResult = <<>>

CallDetermineTrickWinner ==
    /\ fnArgs \in TrickArgs
    /\ fnResult = <<>>
    /\ fnResult' = <<determineTrickWinner(fnArgs.trick, fnArgs.trumpSuit)>>
    /\ UNCHANGED <<routeVars, engineVars, playVars, fnArgs, raceVars>>

NextTrickWinner == CallDetermineTrickWinner

SpecTrickWinner == InitTrickWinner /\ [][NextTrickWinner]_vars

----------------------------------------------------------------------------
(* Claims about playing.ts.                                                *)

Returned == fnResult # <<>>

Value == fnResult[1]

\* C15: isValidPlay answers invalid exactly when the card is not in the hand,
\* or the trick is not empty, the card is not of the suit of the trick's
\* first card and the hand holds a card of that suit; the trump plays no part.
C15_FollowSuit ==
    Returned =>
        LET card == fnArgs.card
            held == { fnArgs.hand[i] : i \in 1..Len(fnArgs.hand) }
            trick == fnArgs.currentTrick
            notInHand == card \notin held
            revoke == /\ trick # <<>>
                      /\ card[2] # trick[1].card[2]
                      /\ \E c \in held : c[2] = trick[1].card[2]
        IN  /\ ~Value.valid <=> (notInHand \/ revoke)
            /\ \A t \in Trumps :
                  isValidPlay(card, fnArgs.hand, trick, t).valid = Value.valid

\* A hand void in the led suit plays a card of another suit, and it is valid
C15_Witness ==
    /\ Returned
    /\ Value.valid
    /\ fnArgs.currentTrick # <<>>
    /\ fnArgs.card[2] # fnArgs.currentTrick[1].card[2]

RankValue(rank) == CHOOSE v \in 2..14 : RANKS[v - 1] = rank

\* c is the highest card of `suit` in the trick
HighestOf(trick, c, suit) ==
    /\ c[2] = suit
    /\ \A i \in 1..4 : trick[i].card[2] = suit => RankValue(trick[i].card[1]) <= RankValue(c[1])

\* 7C led, KC, 2D, 3D
ExampleTrick ==
    << [card |-> <<"7", "C">>, player |-> "uN"], [card |-> <<"K", "C">>, player |-> "uE"],
       [card |-> <<"2", "D">>, player |-> "uS"], [card |-> <<"3", "D">>, player |-> "uW"] >>

\* C16: the trick goes to the player of the highest trump when the trump is a
\* suit and a trump is in the trick, and otherwise to the player of the
\* highest card of the suit led, whatever the order of the cards; 7C, KC, 2D,
\* 3D with diamonds trump goes to the player of the 3D.
C16_TrickWinner ==
    Returned =>
        LET trick == fnArgs.trick
            trump == fnArgs.trumpSuit
            ledSuit == trick[1].card[2]
            trumped == trump \in {"C", "D", "H", "S"}
                          /\ \E i \in 1..4 : trick[i].card[2] = trump
            played == CHOOSE i \in 1..4 : trick[i].player = Value
        IN  /\ \E i \in 1..4 : trick[i].player = Value
            /\ HighestOf(trick, trick[played].card, IF trumped THEN trump ELSE ledSuit)
            /\ (trick = ExampleTrick /\ trump = "D") => Value = "uW"

\* The example: clubs led, diamonds trump, the 3D wins over the KC
C16_Witness ==
    /\ Returned
    /\ fnArgs.trick = ExampleTrick
    /\ fnArgs.trumpSuit = "D"
    /\ Value = "uW"

----------------------------------------------------------------------------
(* lib/game/cardUtils.ts and the deal of initializeGame.  A Card of         *)
(* cardUtils.ts is the object {suit, rank}; cardToString gives the string  *)
(* `${rank}${suit}`, the pair <<rank, suit>> of its characters.             *)

\* The deck holds the MaxDeckRanks lowest ranks of each suit: a hand holds
\* MaxDeckRanks cards (13 in the source).
MaxDeckRanks == 2

\* The shuffles the boards are dealt from
MaxShuffles == 3

\* The shuffles dealCards is called with
MaxDeals == 128

\* The calls of calculateScore on the same completed board
MaxScoreCalls == 2

\* The longest string stringToCard is called with
MaxStringLen == 3

\* The cards played before the game state is fetched
MaxPlayed == 5

\* The longest deck shuffleDeck is called with on its own
MaxShuffleCards == 4

cardUtils_SUITS == <<"S", "H", "D", "C">>

DeckSize == 4 * MaxDeckRanks

HandSize == MaxDeckRanks

\* Create a standard deck: for each suit, for each rank
createDeck ==
    [i \in 1..DeckSize |->
        [suit |-> cardUtils_SUITS[((i - 1) \div MaxDeckRanks) + 1],
         rank |-> RANKS[((i - 1) % MaxDeckRanks) + 1]]]

\* [shuffled[i], shuffled[j]] = [shuffled[j], shuffled[i]], 0-based
swap(a, i, j) ==
    [k \in 1..Len(a) |-> IF k = i + 1 THEN a[j + 1] ELSE IF k = j + 1 THEN a[i + 1] ELSE a[k]]

\* The loop of shuffleDeck stopping before index 1
RECURSIVE shuffleLoop_SkipLast(_, _, _)
shuffleLoop_SkipLast(a, i, draws) ==
    IF i <= 1 THEN a ELSE shuffleLoop_SkipLast(swap(a, i, draws[i]), i - 1, draws)

\* The loop of shuffleDeck from index i down to 1; draws[i] is
\* Math.floor(Math.random() * (i + 1))
RECURSIVE shuffleLoop(_, _, _)
shuffleLoop(a, i, draws) ==
    IF i <= 0 THEN a ELSE shuffleLoop(swap(a, i, draws[i]), i - 1, draws)

shuffleDeck(d, draws) == shuffleLoop(d, Len(d) - 1, draws)

\* The random draws of shuffle k: draws[i] is in 0..i
Draws(k, n) == [i \in 1..(n - 1) |-> (k * i) % (i + 1)]

\* Array.prototype.slice(from, to), 0-based
slice(a, from, to) == SubSeq(a, from + 1, to)

NoDeal == [NORTH |-> <<>>, SOUTH |-> <<>>, EAST |-> <<>>, WEST |-> <<>>]

\* dealCards with SOUTH dealt from the last card of NORTH on
dealCards_Overlap(shuffledDeck) ==
    IF Len(shuffledDeck) # DeckSize THEN NoDeal
    ELSE [NORTH |-> slice(shuffledDeck, 0, HandSize),
          SOUTH |-> slice(shuffledDeck, HandSize - 1, 2 * HandSize - 1),
          EAST  |-> slice(shuffledDeck, 2 * HandSize, 3 * HandSize),
          WEST  |-> slice(shuffledDeck, 3 * HandSize, 4 * HandSize)]

\* Deal a hand to each of 4 players; NoDeal stands for the Error thrown
dealCards(shuffledDeck) ==
    IF Len(shuffledDeck) # DeckSize THEN NoDeal
    ELSE [NORTH |-> slice(shuffledDeck, 0, HandSize),
          SOUTH |-> slice(shuffledDeck, HandSize, 2 * HandSize),
          EAST  |-> slice(shuffledDeck, 2 * HandSize, 3 * HandSize),
          WEST  |-> slice(shuffledDeck, 3 * HandSize, 4 * HandSize)]

\* a sorts before b: by suit (S, H, D, C), then by rank, highest first
sortsBefore(a, b) ==
    LET suitOrder(x) == CHOOSE i \in 1..4 : cardUtils_SUITS[i] = x
        rankOrder(x) == CHOOSE i \in 1..Len(RANKS) : RANKS[i] = x
    IN  IF a.suit # b.suit THEN suitOrder(a.suit) < suitOrder(b.suit)
        ELSE rankOrder(a.rank) > rankOrder(b.rank)

RECURSIVE sortCards(_)
sortCards(cards) ==
    IF cards = {} THEN <<>>
    ELSE LET first == CHOOSE c \in cards : \A d \in cards \ {c} : sortsBefore(c, d)
         IN  <<first>> \o sortCards(cards \ {first})

\* Sort hand by suit and rank (the cards of a hand are distinct)
sortHand(cards) == sortCards({ cards[i] : i \in 1..Len(cards) })

cardToString(card) == <<card.rank, card.suit>>

\* initializeGame: the deck is created, shuffled and dealt; gameState.hands
\* holds the sorted hands, game.deck the shuffled deck as strings
dealBoard ==
    \E k \in 0..(MaxShuffles - 1) :
        LET shuffledDeck == shuffleDeck(createDeck, Draws(k, DeckSize))
            dealt == dealCards(shuffledDeck)
        IN  /\ hands = [NORTH |-> sortHand(dealt.NORTH), SOUTH |-> sortHand(dealt.SOUTH),
                        EAST |-> sortHand(dealt.EAST), WEST |-> sortHand(dealt.WEST)]
            /\ deck = [i \in 1..Len(shuffledDeck) |-> cardToString(shuffledDeck[i])]
            /\ currentTrick = <<>>
            /\ tricks = <<>>
            /\ gameResult = NoGameResult
            /\ playRequest = NoPlayRequest

----------------------------------------------------------------------------
(* app/api/games/[gameId]/play/route.ts                                    *)

\* Get partner seat (opposite)
getPartnerSeat(seat) ==
    CASE seat = "NORTH" -> "SOUTH" [] seat = "SOUTH" -> "NORTH"
      [] seat = "EAST" -> "WEST" [] seat = "WEST" -> "EAST"
      [] OTHER -> seat

\* Get next player clockwise
playRoute_getNextPlayer(players, curPlayerId) ==
    LET seatOrder == <<"NORTH", "EAST", "SOUTH", "WEST">>
        curPlayer == findByUserId(players, curPlayerId)
    IN  IF curPlayer = NoPlayerRec THEN NoPlayerRec
        ELSE LET currentSeatIndex == indexOf(seatOrder, curPlayer.seat)
                 nextSeatIndex    == (currentSeatIndex + 1) % 4
                 nextSeat         == at0(seatOrder, nextSeatIndex)
             IN  findBySeat(players, nextSeat)

\* Calculate tricks won by each team
calculateTricksWon(ts) ==
    [NS |-> Cardinality({ i \in 1..Len(ts) : ts[i].winner \in {"NORTH", "SOUTH"} }),
     EW |-> Cardinality({ i \in 1..Len(ts) : ts[i].winner \notin {"NORTH", "SOUTH"} })]

\* Get vulnerability based on board number
getVulnerability(n) ==
    LET vuln == n % 16
    IN  IF vuln \in {1, 8, 11, 14} THEN [NS |-> FALSE, EW |-> FALSE]
        ELSE IF vuln \in {2, 5, 12, 15} THEN [NS |-> TRUE, EW |-> FALSE]
        ELSE IF vuln \in {3, 6, 9, 0} THEN [NS |-> FALSE, EW |-> TRUE]
        ELSE IF vuln \in {4, 7, 10, 13} THEN [NS |-> TRUE, EW |-> TRUE]
        ELSE [NS |-> FALSE, EW |-> FALSE]

\* hands[currentPlayerSeat] || [] with hands = game.deck: game.deck is the
\* array of card strings initializeGame stored, and an array has no property
\* named after a seat; the property line 116 sets on it is not part of the
\* JSON array line 200 stores.
handInDeck(d, seat) == <<>>

\* The route imports validateCardPlay and evaluateTrick from lib/game/playing,
\* which exports neither: they follow section 4.4 of the specification.
validateCardPlay(card, hand, trick, trumpSuit) == isValidPlay(card, hand, trick, trumpSuit)

evaluateTrick(trick, trumpSuit) == winningCard(trick, Len(trick), trumpSuit)

\* POST, lines 50-82: the player, phase and turn checks
playRoute_checks(user) ==
    LET declarer == findByUserId(gamePlayers, declarerId)
        dummySeat == IF declarer # NoPlayerRec THEN getPartnerSeat(declarer.seat)
                     ELSE "none"
        isPlayerTurn == currentPlayerId = user
        isDummyTurn == /\ dummySeat # "none"
                       /\ findBySeat(gamePlayers, dummySeat).userId = currentPlayerId
        isDeclarerPlayingForDummy == declarerId = user /\ isDummyTurn
    IN  IF findByUserId(gamePlayers, user) = NoPlayerRec
        THEN Reply(403, "You are not in this game")
        ELSE IF phase # "PLAYING"
        THEN Reply(400, "Game is not in playing phase")
        ELSE IF ~isPlayerTurn /\ ~isDeclarerPlayingForDummy
        THEN Reply(400, "Not your turn")
        ELSE Reply(200, "")

\* POST, lines 84-112: the reply to the card of a request that passed the checks
playRoute_validate(card) ==
    LET seatOnTurn == findByUserId(gamePlayers, currentPlayerId).seat
        currentHand == handInDeck(deck, seatOnTurn)
        trump == IF contract = NoContract THEN "null" ELSE contract.suit
    IN  IF findByUserId(gamePlayers, currentPlayerId) = NoPlayerRec
        THEN Reply(500, "Current player not found")
        ELSE IF ~includes(currentHand, card)
        THEN Reply(400, "Card not in your hand")
        ELSE IF ~validateCardPlay(card, currentHand, currentTrick, trump).valid
        THEN Reply(400, validateCardPlay(card, currentHand, currentTrick, trump).error)
        ELSE Reply(200, "")

\* The reply of the play route to the card of user in the present state
playRoute_reply(user, card) ==
    IF playRoute_checks(user).status # 200 THEN playRoute_checks(user)
    ELSE playRoute_validate(card)

\* POST: the whole handler, for the request {card} of session user `user`
PostPlay(user, card) ==
    IF playRoute_reply(user, card).status # 200 THEN
        /\ response' = playRoute_reply(user, card)
        /\ UNCHANGED <<phase, currentPlayerId, deck, hands, currentTrick, tricks,
                       gameResult>>
    ELSE
    LET seatOnTurn == findByUserId(gamePlayers, currentPlayerId).seat
        trump == IF contract = NoContract THEN "null" ELSE contract.suit
        newTrick == Append(currentTrick, [card |-> card, player |-> currentPlayerId,
                                          seat |-> seatOnTurn])
        trickComplete == Len(newTrick) = 4
        winner == evaluateTrick(newTrick, trump)
        newTricks == IF trickComplete
                     THEN Append(tricks, [cards |-> newTrick, winner |-> winner.seat])
                     ELSE tricks
        nextPlayer == IF trickComplete THEN findBySeat(gamePlayers, winner.seat)
                      ELSE playRoute_getNextPlayer(gamePlayers, currentPlayerId)
        declarer == findByUserId(gamePlayers, declarerId)
        declarerTeam == IF declarer # NoPlayerRec /\ declarer.seat \in {"NORTH", "SOUTH"}
                        THEN "NS" ELSE "EW"
        declarerTricks == calculateTricksWon(newTricks)[declarerTeam]
        score == calculateScore(contract, declarerTricks, declarerTeam,
                                getVulnerability(boardNumber))
    IN  IF trickComplete /\ Len(newTricks) = TRICKS_PER_BOARD
        THEN \* the result is created and the phase set; nothing else is stored
             /\ gameResult' = [scoreNS |-> score.scoreNS, scoreEW |-> score.scoreEW,
                               tricksWon |-> declarerTricks]
             /\ phase' = "COMPLETED"
             /\ response' = Reply(200, "")
             /\ UNCHANGED <<currentPlayerId, deck, hands, currentTrick, tricks>>
        ELSE /\ currentTrick' = IF trickComplete THEN <<>> ELSE newTrick
             /\ tricks' = newTricks
             /\ currentPlayerId' = IF nextPlayer = NoPlayerRec THEN currentPlayerId
                                   ELSE nextPlayer.userId
             /\ response' = Reply(200, "")
             /\ UNCHANGED <<phase, deck, hands, gameResult>>

\* playCardSchema lets through every card string; the requests carry the
\* strings of the cards of the deck
RequestCards == { deck[i] : i \in 1..Len(deck) }

\* The handler answers a request that fails the player, phase and turn checks
\* without a look at its card: one card stands for all of them.
CardsOf(user) ==
    IF playRoute_checks(user).status = 200 THEN RequestCards
    ELSE { deck[1] }

PlayRequest ==
    \E user \in Users :
        \E card \in CardsOf(user) :
            /\ PostPlay(user, card)
            /\ playRequest' = [user |-> user, card |-> card]
            /\ UNCHANGED <<boardNumber, dealerId, declarerId, bidHistory, currentBid,
                           contract, engineVars, fnVars, raceVars>>

\* The auction before the play: Passes and Bids that respect the rules
AuctionRequest ==
    \E user \in UserIds, action \in {"bid", "pass"} :
        \E bid \in (IF action = "bid" THEN LegalBids ELSE {NoBid}) :
            /\ LegalCall(bidHistory, DealerOfBoard(boardNumber), SeatOf(user), action, bid)
            /\ PostBid(user, action, bid)
            /\ UNCHANGED <<engineVars, playVars, fnVars, raceVars>>

InitPlay == initializeGame /\ dealBoard /\ EngineIdle /\ FnIdle /\ NoneInFlight

NextPlay == AuctionRequest \/ PlayRequest

SpecPlay == InitPlay /\ [][NextPlay]_vars

----------------------------------------------------------------------------
(* Claims about the contract the bid route stores and about the play route. *)

\* C13: when the final bid of an auction through the bid route was doubled
\* (redoubled) and passed out, the contract stored in the game state is
\* doubled (redoubled), which is what the play route hands to calculateScore.
C13_DoubleReachesContract ==
    Settled =>
        /\ StandingDouble(bidHistory) => (contract.doubled \/ contract.redoubled)
        /\ StandingRedouble(bidHistory) => contract.redoubled

\* The seat to the left of the declarer of the stored contract
LeaderSeat == SeatAfter(SeatOf(declarerId), 1)

\* The cards a seat was dealt, as the strings of the requests
Dealt(seat) == { cardToString(hands[seat][i]) : i \in 1..Len(hands[seat]) }

\* The cards played so far
Played ==
    { currentTrick[i].card : i \in 1..Len(currentTrick) }
      \cup { tricks[t].cards[i].card : t \in 1..Len(tricks), i \in 1..4 }

Held(seat) == Dealt(seat) \ Played

\* The card is one the seat on turn holds and the follow-suit rule allows
LegalCard(card) ==
    LET seat == SeatOf(currentPlayerId)
    IN  /\ card \in Held(seat)
        /\ \/ currentTrick = <<>>
           \/ card[2] = currentTrick[1].card[2]
           \/ \A c \in Held(seat) : c[2] # currentTrick[1].card[2]

\* The request is a legal card of the player on turn in the playing phase
LegalPlay(req) ==
    /\ phase = "PLAYING"
    /\ req.user = currentPlayerId
    /\ LegalCard(req.card)

\* C14: when the bid route settles a contract the seat on turn is the seat to
\* the left of the declarer, and the card that seat plays is the first card
\* of the first trick.
C14_OpeningLead ==
    (phase = "PLAYING" /\ tricks = <<>>) =>
        /\ currentTrick = <<>> => currentPlayerId = UserAt(LeaderSeat)
        /\ (playRequest.user = UserAt(LeaderSeat) /\ playRequest.card \in Dealt(LeaderSeat))
              => /\ currentTrick # <<>>
                 /\ currentTrick[1].seat = LeaderSeat

C18_PlayNotStuck ==
    phase = "PLAYING" =>
        /\ Held(SeatOf(currentPlayerId)) # {}
        /\ \A card \in Held(SeatOf(currentPlayerId)) :
              LegalCard(card) => playRoute_reply(currentPlayerId, card).status = 200

----------------------------------------------------------------------------
(* Claims about the figures of calculateScore.                             *)

IsVulnerable == fnArgs.vulnerability[fnArgs.declarer]

Made == Scored /\ fnArgs.tricksWon >= 6 + fnArgs.contract.level

Failed == Scored /\ fnArgs.tricksWon < 6 + fnArgs.contract.level

Over == fnArgs.tricksWon - (6 + fnArgs.contract.level)

Down == (6 + fnArgs.contract.level) - fnArgs.tricksWon

\* The points of the tricks bid: 40 then 30 a trick in no trump, 30 a trick in
\* a major suit, 20 a trick in a minor suit
BasePoints ==
    IF fnArgs.contract.suit = "NT" THEN 40 + 30 * (fnArgs.contract.level - 1)
    ELSE IF fnArgs.contract.suit \in {"H", "S"} THEN 30 * fnArgs.contract.level
    ELSE 20 * fnArgs.contract.level

GameBonus(trickScore) ==
    IF trickScore < 100 THEN 50 ELSE IF IsVulnerable THEN 500 ELSE 300

SlamBonus ==
    IF fnArgs.contract.level = 6 THEN (IF IsVulnerable THEN 750 ELSE 500)
    ELSE IF fnArgs.contract.level = 7 THEN (IF IsVulnerable THEN 1500 ELSE 1000)
    ELSE 0

Min(a, b) == IF a < b THEN a ELSE b

Max(a, b) == IF a > b THEN a ELSE b

\* The doubled schedule: the 1st undertrick 100/200, the 2nd and 3rd 200/300
\* each, the 4th and later 300 each (non-vulnerable/vulnerable)
DoubledSchedule(d) ==
    (IF IsVulnerable THEN 200 ELSE 100)
      + Min(Max(d - 1, 0), 2) * (IF IsVulnerable THEN 300 ELSE 200)
      + Max(d - 3, 0) * 300

FourHearts == [level |-> 4, suit |-> "H", doubled |-> FALSE, redoubled |-> FALSE]

\* C21: a made contract that is not redoubled scores, for the declaring side,
\* trickScore + over * overtrickValue + gameBonus + slamBonus + insultBonus
\* (trickScore = basePoints, twice that if doubled; overtrickValue 20/30
\* undoubled by minor/other suit, 100/200 doubled by vulnerability; insult 50
\* if doubled) and 0 for the other side; 4H making 10 tricks, non-vulnerable
\* and undoubled, scores 420.
C21_MadeScore ==
    (Made /\ ~fnArgs.contract.redoubled) =>
        LET doubled == fnArgs.contract.doubled
            trickScore == IF doubled THEN 2 * BasePoints ELSE BasePoints
            overtrickValue ==
                IF doubled THEN (IF IsVulnerable THEN 200 ELSE 100)
                ELSE IF fnArgs.contract.suit \in {"C", "D"} THEN 20 ELSE 30
            insultBonus == IF doubled THEN 50 ELSE 0
            total == trickScore + Over * overtrickValue + GameBonus(trickScore)
                       + SlamBonus + insultBonus
        IN  /\ ScoreOf(Score, fnArgs.declarer) = total
            /\ ScoreOf(Score, OtherSide(fnArgs.declarer)) = 0
            /\ Score.breakdown.trickScore = trickScore
            /\ (fnArgs.contract = FourHearts /\ fnArgs.tricksWon = 10 /\ ~IsVulnerable)
                 => total = 420

C21_Witness ==
    /\ Made
    /\ fnArgs.contract = FourHearts
    /\ fnArgs.tricksWon = 10
    /\ fnArgs.declarer = "NS"
    /\ ~IsVulnerable
    /\ Score.scoreNS = 420
    /\ Score.scoreEW = 0

\* C22: a failed contract that is not redoubled reports, for d undertricks, the
\* penalty d * 50 (non-vulnerable) or d * 100 (vulnerable) when undoubled and
\* the doubled schedule when doubled; doubled vulnerable down 1 is 200,
\* doubled non-vulnerable down 4 is 800.
C22_Penalty ==
    (Failed /\ ~fnArgs.contract.redoubled) =>
        /\ ~fnArgs.contract.doubled =>
             Score.breakdown.penalty = Down * (IF IsVulnerable THEN 100 ELSE 50)
        /\ fnArgs.contract.doubled =>
             /\ Score.breakdown.penalty = DoubledSchedule(Down)
             /\ (IsVulnerable /\ Down = 1) => Score.breakdown.penalty = 200
             /\ (~IsVulnerable /\ Down = 4) => Score.breakdown.penalty = 800

C22_Witness ==
    /\ Failed
    /\ fnArgs.contract.doubled
    /\ ~fnArgs.contract.redoubled
    /\ ~IsVulnerable
    /\ Down = 4
    /\ Score.breakdown.penalty = 800

\* C23: a made redoubled contract, with the doubled flag set or not, is scored
\* with trickScore = 4 * basePoints, overtricks of 200 (non-vulnerable) or 400
\* (vulnerable) each and an insult bonus of exactly 100.
C23_RedoubledMade ==
    (Made /\ fnArgs.contract.redoubled) =>
        LET trickScore == 4 * BasePoints
            overtricks == Over * (IF IsVulnerable THEN 400 ELSE 200)
        IN  /\ Score.breakdown.trickScore = trickScore
            /\ Score.breakdown.overtricks = overtricks
            /\ ScoreOf(Score, fnArgs.declarer) =
                 trickScore + overtricks + GameBonus(trickScore) + SlamBonus + 100

\* C24: a failed redoubled contract, with the doubled flag set or not, costs
\* exactly twice the doubled schedule for the same undertricks and
\* vulnerability; redoubled non-vulnerable down 2 is 600.
C24_RedoubledPenalty ==
    (Failed /\ fnArgs.contract.redoubled) =>
        /\ Score.breakdown.penalty = 2 * DoubledSchedule(Down)
        /\ ScoreOf(Score, fnArgs.declarer) = -(2 * DoubledSchedule(Down))
        /\ (~IsVulnerable /\ Down = 2) => Score.breakdown.penalty = 600

----------------------------------------------------------------------------
(* The vulnerability of a board: calculateVulnerability of gameEngine.ts,  *)
(* which initializeGame stores in gameState.vulnerability at the deal, and *)
(* getVulnerability of the play route, which the route scores with.        *)

\* Calculate vulnerability based on board number
calculateVulnerability(n) ==
    LET position == ((n - 1) % 4) + 1
    IN  CASE position = 1 -> [NS |-> FALSE, EW |-> FALSE]
          [] position = 2 -> [NS |-> TRUE, EW |-> FALSE]
          [] position = 3 -> [NS |-> FALSE, EW |-> TRUE]
          [] position = 4 -> [NS |-> TRUE, EW |-> TRUE]
          [] OTHER -> [NS |-> FALSE, EW |-> FALSE]

\* Thirteen tricks of which NORTH won k and EAST the others
tricksWith(k) ==
    [i \in 1..TRICKS_PER_BOARD |->
       [cards |-> <<>>, winner |-> IF i <= k THEN "NORTH" ELSE "EAST"]]

\* POST of the play route, lines 146-153: the score of the thirteen tricks ts
\* of board n for the contract c of the declarer in declarerSeat
scoreBoard(n, c, declarerSeat, ts) ==
    LET tricksWon == calculateTricksWon(ts)
        declarerTeam == IF declarerSeat = "NORTH" \/ declarerSeat = "SOUTH"
                        THEN "NS" ELSE "EW"
        declarerTricks == tricksWon[declarerTeam]
        vulnerability == getVulnerability(n)
    IN  [vulnerability |-> vulnerability,
         score |-> calculateScore(c, declarerTricks, declarerTeam, vulnerability)]

\* The boards that are scored: a board number, the contract the bid route
\* stored (never doubled), the declarer's seat and the tricks of NORTH-SOUTH
BoardArgs ==
    [fn : {"scoreBoard"},
     boardNumber : 1..MaxBoard,
     contract : [level : 1..MAX_LEVEL, suit : ScoreSuits,
                 doubled : {FALSE}, redoubled : {FALSE}],
     declarerSeat : Seats,
     tricksNS : 0..TRICKS_PER_BOARD]

InitBoardScore ==
    /\ initializeGame /\ EngineIdle /\ PlayIdle /\ NoneInFlight
    /\ fnArgs \in BoardArgs
    /\ fnResult = <<>>

CallScoreBoard ==
    /\ fnArgs \in BoardArgs
    /\ fnResult = <<>>
    /\ fnResult' = <<scoreBoard(fnArgs.boardNumber, fnArgs.contract,
                                fnArgs.declarerSeat, tricksWith(fnArgs.tricksNS))>>
    /\ UNCHANGED <<routeVars, engineVars, playVars, fnArgs, raceVars>>

NextBoardScore == CallScoreBoard

SpecBoardScore == InitBoardScore /\ [][NextBoardScore]_vars

\* (n - 1) mod 4 -> 0: none, 1: NS, 2: EW, 3: both
VulnerabilityForBoard(n) ==
    [NS |-> (n - 1) % 4 \in {1, 3}, EW |-> (n - 1) % 4 \in {2, 3}]

\* C25: for every board number n >= 1 the vulnerability the play route scores
\* the board with is the one calculateVulnerability gave the board at the
\* deal, (n - 1) mod 4 -> 0: none, 1: NS, 2: EW, 3: both.
C25_SameVulnerability ==
    Returned =>
        /\ calculateVulnerability(fnArgs.boardNumber)
             = VulnerabilityForBoard(fnArgs.boardNumber)
        /\ Value.vulnerability = calculateVulnerability(fnArgs.boardNumber)

----------------------------------------------------------------------------
(* The two routes of a game: the requests of the auction, from the player  *)
(* on turn and from everyone else, and the requests of the play.           *)

\* A request to the bid route: a Pass or Bid that respects the rules from a
\* user the checks let through, a Pass from a user they stop
RouteBidRequest ==
    \E user \in Users, action \in {"bid", "pass"} :
        \E bid \in (IF action = "bid" THEN LegalBids ELSE {NoBid}) :
            /\ bidRoute_checks(user).status = 200 =>
                 LegalCall(bidHistory, DealerOfBoard(boardNumber), SeatOf(user), action, bid)
            /\ bidRoute_checks(user).status # 200 => action = "pass"
            /\ PostBid(user, action, bid)
            /\ UNCHANGED <<engineVars, playVars, fnVars, raceVars>>

NextRoutes == RouteBidRequest \/ PlayRequest

SpecRoutes == InitPlay /\ [][NextRoutes]_vars

\* What the routes persist of the game
persisted ==
    <<boardNumber, dealerId, phase, currentPlayerId, declarerId, bidHistory, currentBid,
      contract, deck, hands, currentTrick, tricks, gameResult>>

Rejected(r) == r.status # 200

\* C26: a request a route rejects (a bid when the phase is not BIDDING or from
\* a player not on turn; a card when the phase is not PLAYING, from a player
\* not on turn, not in the hand or against the follow-suit rule) changes
\* neither the auction history, the hands, the tricks, the seat on turn nor
\* the phase.
C26_RejectedUnchanged ==
    [][Rejected(response') => UNCHANGED persisted]_vars

\* A bid was rejected in the play, after a card had been rejected
C26_Witness ==
    /\ phase = "PLAYING"
    /\ playRequest.user # NoPlayer
    /\ response = Reply(400, "Game is not in bidding phase")
    /\ bidHistory # <<>>
    /\ \A seat \in Seats : Len(hands[seat]) = HandSize

----------------------------------------------------------------------------
(* The bid route under concurrent requests.  The handler awaits             *)
(* prisma.game.findUnique (line 39), works on the game it got, and awaits   *)
(* prisma.game.update (line 129): other requests run between the two.  The  *)
(* update is not in a transaction and has no condition on what it replaces. *)

\* The game as findUnique returns it
gameRead ==
    [phase |-> phase, currentPlayerId |-> currentPlayerId, declarerId |-> declarerId,
     bidHistory |-> bidHistory, currentBid |-> currentBid, contract |-> contract]

\* POST, lines 58-81, on the game the request read
bidRoute_checksOn(game, user) ==
    IF findByUserId(gamePlayers, user) = NoPlayerRec
    THEN Reply(403, "You are not in this game")
    ELSE IF game.phase # "BIDDING"
    THEN Reply(400, "Game is not in bidding phase")
    ELSE IF game.currentPlayerId # user
    THEN Reply(400, "Not your turn")
    ELSE Reply(200, "")

\* The BidAction of a request, lines 86-98
bidActionOf(user, action, bid) ==
    [type |-> action, player |-> user, seat |-> findByUserId(gamePlayers, user).seat,
     bid |-> IF bid = NoBid THEN NoBid
             ELSE [level |-> bid.level, suit |-> bid.suit,
                   doubled |-> FALSE, redoubled |-> FALSE]]

\* POST, lines 83-137: the game the request writes, from the game it read
bidRoute_update(game, user, action, bid) ==
    LET newHistory == Append(game.bidHistory, bidActionOf(user, action, bid))
        nextPlayer == bidRoute_getNextPlayer(gamePlayers, user)
        biddingComplete == bidding_isBiddingComplete(newHistory)
        newContract == IF biddingComplete
                       THEN bidding_determineContract(newHistory)
                       ELSE NoContract
    IN  [bidHistory |-> newHistory,
         currentBid |-> lastWhere(newHistory, LAMBDA b : b.type = "bid").bid,
         contract |-> newContract,
         currentPlayerId |->
             IF biddingComplete
             THEN (IF newContract # NoContract
                   THEN getPlayerToLeftOfDeclarer(gamePlayers, newContract.declarer)
                   ELSE NoPlayer)
             ELSE IF nextPlayer = NoPlayerRec THEN game.currentPlayerId
             ELSE nextPlayer.userId,
         phase |-> IF biddingComplete
                   THEN (IF newContract # NoContract THEN "PLAYING" ELSE "COMPLETED")
                   ELSE game.phase,
         declarerId |-> IF biddingComplete /\ newContract # NoContract
                        THEN newContract.declarer ELSE game.declarerId]

\* POST, lines 22-49: request r arrives and reads the game
ReadGame(r) ==
    /\ inFlight[r].pc = "idle"
    /\ \E user \in Users, action \in {"bid", "pass"} :
         \E bid \in (IF action = "bid" THEN LegalBids ELSE {NoBid}) :
             inFlight' = [inFlight EXCEPT
                            ![r] = [pc |-> "read", user |-> user, action |-> action,
                                    bid |-> bid, game |-> gameRead,
                                    reply |-> Reply(0, "")]]
    /\ UNCHANGED <<routeVars, engineVars, playVars, fnVars, room>>

\* POST, lines 51-144: request r checks the game it read, writes and replies
WriteGame(r) ==
    LET req == inFlight[r]
        reply == bidRoute_checksOn(req.game, req.user)
        new == bidRoute_update(req.game, req.user, req.action, req.bid)
    IN  /\ req.pc = "read"
        /\ inFlight' = [inFlight EXCEPT ![r].pc = "done", ![r].reply = reply]
        /\ response' = reply
        /\ IF reply.status # 200
           THEN UNCHANGED <<phase, currentPlayerId, declarerId, bidHistory, currentBid,
                            contract>>
           ELSE /\ bidHistory' = new.bidHistory
                /\ currentBid' = new.currentBid
                /\ contract' = new.contract
                /\ currentPlayerId' = new.currentPlayerId
                /\ phase' = new.phase
                /\ declarerId' = new.declarerId
        /\ UNCHANGED <<boardNumber, dealerId, engineVars, playVars, fnVars, room>>

NextRace == \E r \in Requests : ReadGame(r) \/ WriteGame(r)

SpecRace == Init /\ [][NextRace]_vars

Accepted(r) == inFlight[r].pc = "done" /\ inFlight[r].reply.status = 200

\* C27: of two concurrent requests to the bid route at most one is accepted
\* against a given state of the game: two accepted requests never read the
\* same auction history and player on turn, and every call acknowledged as
\* accepted is in the persisted auction history.
C27_AtMostOneAccepted ==
    /\ \A r1, r2 \in Requests :
         (r1 # r2 /\ Accepted(r1) /\ Accepted(r2)) =>
             <<inFlight[r1].game.bidHistory, inFlight[r1].game.currentPlayerId>>
               # <<inFlight[r2].game.bidHistory, inFlight[r2].game.currentPlayerId>>
    /\ \A r \in Requests :
         Accepted(r) =>
             \E i \in 1..Len(bidHistory) :
                 bidHistory[i] = bidActionOf(inFlight[r].user, inFlight[r].action,
                                              inFlight[r].bid)
    /\ Cardinality({ r \in Requests : Accepted(r) }) <= Len(bidHistory)

----------------------------------------------------------------------------
(* dealCards of cardUtils.ts, called on its own: with the shuffles of the   *)
(* created deck, and with arrays that are not a deck.                       *)

\* The results of shuffleDeck(createDeck()) for MaxDeals vectors of draws
Shuffled ==
    { shuffleDeck(createDeck, Draws(k, DeckSize)) : k \in 0..(MaxDeals - 1) }

\* Arrays that are not a deck, made from the shuffles the boards are dealt
\* from: the last card replaced by a second copy of the first, the last card
\* missing, a second copy of the first card added
SomeShuffles ==
    { shuffleDeck(createDeck, Draws(k, DeckSize)) : k \in 0..(MaxShuffles - 1) }

WithDuplicate(d) == [d EXCEPT ![Len(d)] = d[1]]

NotADeck ==
    { WithDuplicate(d) : d \in SomeShuffles }
      \cup { SubSeq(d, 1, Len(d) - 1) : d \in SomeShuffles }
      \cup { Append(d, d[1]) : d \in SomeShuffles }

DealArgs == [fn : {"dealCards"}, shuffledDeck : Shuffled \cup NotADeck]

InitDeal ==
    /\ initializeGame /\ EngineIdle /\ PlayIdle /\ NoneInFlight
    /\ fnArgs \in DealArgs
    /\ fnResult = <<>>

CallDealCards ==
    /\ fnArgs \in DealArgs
    /\ fnResult = <<>>
    /\ fnResult' = <<dealCards(fnArgs.shuffledDeck)>>
    /\ UNCHANGED <<routeVars, engineVars, playVars, fnArgs, raceVars>>

NextDeal == CallDealCards

SpecDeal == InitDeal /\ [][NextDeal]_vars

CardSet(cards) == { cards[i] : i \in 1..Len(cards) }

\* The cards of a standard deck: every rank in every suit
FullDeck ==
    { [suit |-> cardUtils_SUITS[i], rank |-> RANKS[j]] :
        i \in 1..4, j \in 1..MaxDeckRanks }

\* d holds every card of the deck exactly once
IsDeck(d) == Len(d) = Cardinality(FullDeck) /\ CardSet(d) = FullDeck

DealSeats == {"NORTH", "SOUTH", "EAST", "WEST"}

\* C28: for every deck in any order (every result of shuffleDeck applied to
\* createDeck) dealCards returns four hands NORTH, SOUTH, EAST, WEST of a
\* quarter of the deck each (13 cards of 52), pairwise disjoint, whose union
\* is the whole deck: each card is in exactly one hand.
C28_DealPartition ==
    (Returned /\ fnArgs.shuffledDeck \in Shuffled) =>
        /\ IsDeck(fnArgs.shuffledDeck)
        /\ DOMAIN Value = DealSeats
        /\ \A seat \in DealSeats :
             /\ Len(Value[seat]) = Cardinality(FullDeck) \div 4
             /\ Cardinality(CardSet(Value[seat])) = Len(Value[seat])
        /\ \A s1, s2 \in DealSeats :
             s1 # s2 => CardSet(Value[s1]) \cap CardSet(Value[s2]) = {}
        /\ UNION { CardSet(Value[seat]) : seat \in DealSeats } = FullDeck

\* A deck that shuffleDeck has put in another order is dealt
C28_Witness ==
    /\ Returned
    /\ fnArgs.shuffledDeck \in Shuffled
    /\ fnArgs.shuffledDeck # createDeck
    /\ Value # NoDeal
    /\ UNION { CardSet(Value[seat]) : seat \in DealSeats } = FullDeck

\* C29: dealCards fails for every input that is not exactly the cards of the
\* deck, each once: for an input of another length, and for an input of the
\* length of the deck in which a card occurs twice and another is missing.
C29_RejectsNonDeck ==
    (Returned /\ ~IsDeck(fnArgs.shuffledDeck)) => Value = NoDeal

----------------------------------------------------------------------------
(* isBidHigher of biddingEngine.ts and of bidding.ts, called on their own   *)
(* with the 35 bids.                                                        *)

\* level 1..7 x suit C, D, H, S, NT
OrderBids == [level : 1..MAX_LEVEL, suit : ScoreSuits]

BidOrderArgs ==
    [fn : {"biddingEngine.isBidHigher", "bidding.isBidHigher"},
     a : OrderBids, b : OrderBids, c : OrderBids]

InitBidOrder ==
    /\ initializeGame /\ EngineIdle /\ PlayIdle /\ NoneInFlight
    /\ fnArgs \in BidOrderArgs
    /\ fnResult = <<>>

\* isBidHigher(a, b), (b, a), (b, c) and (a, c) of biddingEngine.ts
CallEngineIsBidHigher ==
    /\ fnArgs \in BidOrderArgs
    /\ fnArgs.fn = "biddingEngine.isBidHigher"
    /\ fnResult = <<>>
    /\ fnResult' = <<[ab |-> engine_isBidHigher(fnArgs.a, fnArgs.b),
                      ba |-> engine_isBidHigher(fnArgs.b, fnArgs.a),
                      bc |-> engine_isBidHigher(fnArgs.b, fnArgs.c),
                      ac |-> engine_isBidHigher(fnArgs.a, fnArgs.c)]>>
    /\ UNCHANGED <<routeVars, engineVars, playVars, fnArgs, raceVars>>

\* The same calls of isBidHigher of bidding.ts
CallBiddingIsBidHigher ==
    /\ fnArgs \in BidOrderArgs
    /\ fnArgs.fn = "bidding.isBidHigher"
    /\ fnResult = <<>>
    /\ fnResult' = <<[ab |-> bidding_isBidHigher(fnArgs.a, fnArgs.b),
                      ba |-> bidding_isBidHigher(fnArgs.b, fnArgs.a),
                      bc |-> bidding_isBidHigher(fnArgs.b, fnArgs.c),
                      ac |-> bidding_isBidHigher(fnArgs.a, fnArgs.c)]>>
    /\ UNCHANGED <<routeVars, engineVars, playVars, fnArgs, raceVars>>

NextBidOrder == CallEngineIsBidHigher \/ CallBiddingIsBidHigher

SpecBidOrder == InitBidOrder /\ [][NextBidOrder]_vars

\* C < D < H < S < NT
StrainRank(suit) ==
    CHOOSE i \in 1..5 : <<"C", "D", "H", "S", "NT">>[i] = suit

ExactlyOne(p, q, r) == (p /\ ~q /\ ~r) \/ (~p /\ q /\ ~r) \/ (~p /\ ~q /\ r)

\* C30: isBidHigher, in both implementations, is a strict total order on the
\* 35 bids: for all bids a, b exactly one of isBidHigher(a, b), a = b,
\* isBidHigher(b, a) holds; isBidHigher(a, b) and isBidHigher(b, c) imply
\* isBidHigher(a, c); a higher level outranks any suit and at equal level
\* C < D < H < S < NT.
C30_BidOrder ==
    Returned =>
        /\ ExactlyOne(Value.ab, fnArgs.a = fnArgs.b, Value.ba)
        /\ (Value.ab /\ Value.bc) => Value.ac
        /\ fnArgs.a.level > fnArgs.b.level => Value.ab
        /\ fnArgs.a.level = fnArgs.b.level =>
             (Value.ab <=> StrainRank(fnArgs.a.suit) > StrainRank(fnArgs.b.suit))

\* 2D over 2C over 1NT, in bidding.ts
C30_Witness ==
    /\ Returned
    /\ fnArgs.fn = "bidding.isBidHigher"
    /\ fnArgs.a = [level |-> 2, suit |-> "D"]
    /\ fnArgs.b = [level |-> 2, suit |-> "C"]
    /\ fnArgs.c = [level |-> 1, suit |-> "NT"]
    /\ Value.ab /\ Value.bc /\ Value.ac /\ ~Value.ba

----------------------------------------------------------------------------
(* cardToString and stringToCard of cardUtils.ts, called on their own.  A   *)
(* string is the sequence of its characters: str[0] is str[1] here.         *)

cardUtils_RANKS == <<"2", "3", "4", "5", "6", "7", "8", "9", "T", "J", "Q", "K", "A">>

\* The Error stringToCard throws
NoCard == [suit |-> "none", rank |-> "none"]

\* stringToCard reading the suit before the rank
stringToCard_SuitFirst(str) ==
    IF Len(str) # 2 THEN NoCard
    ELSE IF ~includes(cardUtils_RANKS, str[2]) \/ ~includes(cardUtils_SUITS, str[1])
    THEN NoCard
    ELSE [suit |-> str[1], rank |-> str[2]]

\* Parse string to card
stringToCard(str) ==
    IF Len(str) # 2 THEN NoCard
    ELSE IF ~includes(cardUtils_RANKS, str[1]) \/ ~includes(cardUtils_SUITS, str[2])
    THEN NoCard
    ELSE [suit |-> str[2], rank |-> str[1]]

\* The 52 cards
AllCards ==
    [suit : { cardUtils_SUITS[i] : i \in 1..4 }, rank : { cardUtils_RANKS[i] : i \in 1..13 }]

\* The characters of the strings: the ranks, the suits and three that are neither
Chars ==
    { cardUtils_RANKS[i] : i \in 1..13 } \cup { cardUtils_SUITS[i] : i \in 1..4 }
      \cup {"1", "0", "s"}

StringsUpTo(n) == UNION { [1..k -> Chars] : k \in 0..n }

InitCardString ==
    /\ initializeGame /\ EngineIdle /\ PlayIdle /\ NoneInFlight
    /\ \/ fnArgs \in [fn : {"cardToString"}, card : AllCards, other : AllCards]
       \/ fnArgs \in [fn : {"stringToCard"}, str : StringsUpTo(MaxStringLen)]
    /\ fnResult = <<>>

\* cardToString(card), cardToString(other) and stringToCard of the first
CallCardToString ==
    /\ fnArgs # <<>>
    /\ fnArgs.fn = "cardToString"
    /\ fnResult = <<>>
    /\ fnResult' = <<[str |-> cardToString(fnArgs.card),
                      otherStr |-> cardToString(fnArgs.other),
                      back |-> stringToCard(cardToString(fnArgs.card))]>>
    /\ UNCHANGED <<routeVars, engineVars, playVars, fnArgs, raceVars>>

\* stringToCard(str) and, when it returns a card, cardToString of that card
CallStringToCard ==
    /\ fnArgs # <<>>
    /\ fnArgs.fn = "stringToCard"
    /\ fnResult = <<>>
    /\ fnResult' = <<[card |-> stringToCard(fnArgs.str),
                      back |-> IF stringToCard(fnArgs.str) = NoCard THEN <<>>
                               ELSE cardToString(stringToCard(fnArgs.str))]>>
    /\ UNCHANGED <<routeVars, engineVars, playVars, fnArgs, raceVars>>

NextCardString == CallCardToString \/ CallStringToCard

SpecCardString == InitCardString /\ [][NextCardString]_vars

\* A rank character followed by a suit character
ValidCardStrings ==
    { <<r, u>> : r \in {"2", "3", "4", "5", "6", "7", "8", "9", "T", "J", "Q", "K", "A"},
                 u \in {"S", "H", "D", "C"} }

\* C31: the two-character encoding of the cards is a bijection:
\* stringToCard(cardToString(c)) = c for each of the 52 cards,
\* cardToString(stringToCard(s)) = s for each of the 52 strings of a rank
\* character and a suit character, distinct cards have distinct strings, and
\* stringToCard rejects every other string.
C31_CardBijection ==
    Returned =>
        /\ fnArgs.fn = "cardToString" =>
             /\ Value.back = fnArgs.card
             /\ Value.str \in ValidCardStrings
             /\ fnArgs.card # fnArgs.other => Value.str # Value.otherStr
        /\ fnArgs.fn = "stringToCard" =>
             IF fnArgs.str \in ValidCardStrings
             THEN Value.card \in AllCards /\ Value.back = fnArgs.str
             ELSE Value.card = NoCard

\* "TS" is parsed as the ten of spades and written back as "TS"
C31_Witness ==
    /\ Returned
    /\ fnArgs.fn = "stringToCard"
    /\ fnArgs.str = <<"T", "S">>
    /\ Value.card = [suit |-> "S", rank |-> "T"]
    /\ Value.back = <<"T", "S">>

----------------------------------------------------------------------------
(* The play route when the dummy is on turn.  The game is the one the       *)
(* handler stores when it accepts the opening lead (lines 114-205): the     *)
(* lead is the current trick and the next seat clockwise, the dummy, is on  *)
(* turn.                                                                    *)

\* The game after the calls, each made by the player on turn
RECURSIVE gameAfter(_, _)
gameAfter(game, calls) ==
    IF calls = <<>> THEN game
    ELSE gameAfter(bidRoute_update(game, game.currentPlayerId,
                                   calls[1].action, calls[1].bid),
                   Tail(calls))

\* The game initializeGame creates, as the bid route reads it
newGame ==
    [phase |-> "BIDDING",
     currentPlayerId |-> findBySeat(gamePlayers, getDealerForBoard(InitialBoard)).userId,
     declarerId |-> NoPlayer, bidHistory |-> <<>>, currentBid |-> NoBid,
     contract |-> NoContract]

\* Passes up to the seat of d, 1H by d, three Passes
auctionOf(d) ==
    LET k == RotationIndex(SeatOf(d)) - RotationIndex(getDealerForBoard(InitialBoard))
    IN  [i \in 1..(k + 4) |->
           IF i = k + 1 THEN [action |-> "bid", bid |-> [level |-> 1, suit |-> "H"]]
           ELSE [action |-> "pass", bid |-> NoBid]]

InitDummyTurn ==
    \E d \in UserIds, k \in 0..(MaxShuffles - 1) :
        LET game == gameAfter(newGame, auctionOf(d))
            leader == findByUserId(gamePlayers, game.currentPlayerId)
            shuffledDeck == shuffleDeck(createDeck, Draws(k, DeckSize))
            dealt == dealCards(shuffledDeck)
        IN  /\ boardNumber = InitialBoard
            /\ dealerId = findBySeat(gamePlayers, getDealerForBoard(InitialBoard)).userId
            /\ phase = game.phase
            /\ declarerId = game.declarerId
            /\ bidHistory = game.bidHistory
            /\ currentBid = game.currentBid
            /\ contract = game.contract
            /\ hands = [NORTH |-> sortHand(dealt.NORTH), SOUTH |-> sortHand(dealt.SOUTH),
                        EAST |-> sortHand(dealt.EAST), WEST |-> sortHand(dealt.WEST)]
            /\ deck = [i \in 1..Len(shuffledDeck) |-> cardToString(shuffledDeck[i])]
            /\ \E i \in 1..Len(hands[leader.seat]) :
                 currentTrick = <<[card |-> cardToString(hands[leader.seat][i]),
                                   player |-> leader.userId, seat |-> leader.seat]>>
            /\ currentPlayerId = playRoute_getNextPlayer(gamePlayers, leader.userId).userId
            /\ tricks = <<>>
            /\ gameResult = NoGameResult
            /\ playRequest = NoPlayRequest
            /\ response = Reply(200, "")
            /\ EngineIdle /\ FnIdle /\ NoneInFlight

NextDummyTurn == PlayRequest

SpecDummyTurn == InitDummyTurn /\ [][NextDummyTurn]_vars

DummyUser == UserAt(Partner(SeatOf(declarerId)))

----------------------------------------------------------------------------
(* calculateScore called several times with the same arguments.  The        *)
(* function reads contract, tricksWon, declarer and vulnerability, assigns  *)
(* only to its locals breakdown and score (lines 37-46) and reads nothing   *)
(* outside them.                                                            *)

\* calculateScore with a count of the calls made before added to the score
CallCalculateScoreAgain_Counting ==
    /\ fnArgs \in ScoreArgs
    /\ Len(fnResult) < MaxScoreCalls
    /\ fnResult' =
         Append(fnResult,
                [calculateScore(fnArgs.contract, fnArgs.tricksWon, fnArgs.declarer,
                                fnArgs.vulnerability)
                   EXCEPT !.scoreNS = @ + Len(fnResult)])
    /\ UNCHANGED <<routeVars, engineVars, playVars, fnArgs, raceVars>>

\* One more call with the arguments of the call before
CallCalculateScoreAgain ==
    /\ fnArgs \in ScoreArgs
    /\ Len(fnResult) < MaxScoreCalls
    /\ fnResult' =
         Append(fnResult,
                calculateScore(fnArgs.contract, fnArgs.tricksWon, fnArgs.declarer,
                               fnArgs.vulnerability))
    /\ UNCHANGED <<routeVars, engineVars, playVars, fnArgs, raceVars>>

NextScoreAgain == CallCalculateScoreAgain

SpecScoreAgain == InitScore /\ [][NextScoreAgain]_vars

----------------------------------------------------------------------------
(* getNextPlayer of playing.ts, called on its own.  seats gives the player  *)
(* of each of the seats north, south, east and west.                        *)

\* The Error getNextPlayer throws
PlayerNotFound == "Player not found in seats"

\* Get the next player in clockwise order
playing_getNextPlayer(currentPlayer, seats) ==
    LET seatOrder == <<"north", "south", "east", "west">>
        \* Object.entries(seats).find: the seats hold different players
        found == { seat \in DOMAIN seats : seats[seat] = currentPlayer }
    IN  IF found = {} THEN PlayerNotFound
        ELSE LET currentSeat == CHOOSE seat \in found : TRUE
                 currentIndex == indexOf(seatOrder, currentSeat)
                 nextIndex == (currentIndex + 1) % 4
                 nextSeat == at0(seatOrder, nextIndex)
             IN  seats[nextSeat]

\* The four players in the four seats, in every arrangement
SeatsArgs ==
    { f \in [{"north", "south", "east", "west"} -> UserIds] :
        \A s1, s2 \in DOMAIN f : s1 # s2 => f[s1] # f[s2] }

NextPlayerArgs == [fn : {"getNextPlayer"}, currentPlayer : Users, seats : SeatsArgs]

InitNextPlayer ==
    /\ initializeGame /\ EngineIdle /\ PlayIdle /\ NoneInFlight
    /\ fnArgs \in NextPlayerArgs
    /\ fnResult = <<>>

CallGetNextPlayer ==
    /\ fnArgs \in NextPlayerArgs
    /\ fnResult = <<>>
    /\ fnResult' = <<playing_getNextPlayer(fnArgs.currentPlayer, fnArgs.seats)>>
    /\ UNCHANGED <<routeVars, engineVars, playVars, fnArgs, raceVars>>

NextNextPlayer == CallGetNextPlayer

SpecNextPlayer == InitNextPlayer /\ [][NextNextPlayer]_vars

\* north -> east -> south -> west -> north
ClockwiseOf(seat) ==
    CASE seat = "north" -> "east" [] seat = "east" -> "south"
      [] seat = "south" -> "west" [] seat = "west" -> "north"

\* C34: getNextPlayer of playing.ts returns, for the player of every seat, the
\* player seated immediately clockwise in the rotation NORTH -> EAST -> SOUTH
\* -> WEST -> NORTH.
C34_NextClockwise ==
    Returned =>
        \A seat \in DOMAIN fnArgs.seats :
            fnArgs.seats[seat] = fnArgs.currentPlayer =>
                Value = fnArgs.seats[ClockwiseOf(seat)]

----------------------------------------------------------------------------
(* The breakdown calculateScore returns.                                    *)

\* C35: for every made contract and every combination of the doubled and
\* redoubled flags the score of the declaring side is the sum of the
\* components of the breakdown, trickScore + overtricks + gameBonus +
\* slamBonus + doubleBonus, and the penalty is 0.
C35_BreakdownSum ==
    Made =>
        /\ ScoreOf(Score, fnArgs.declarer) =
             Score.breakdown.trickScore + Score.breakdown.overtricks
               + Score.breakdown.gameBonus + Score.breakdown.slamBonus
               + Score.breakdown.doubleBonus
        /\ Score.breakdown.penalty = 0

----------------------------------------------------------------------------
(* isBiddingComplete and determineContract of bidding.ts and of            *)
(* biddingEngine.ts, called on their own with the same auction: North      *)
(* deals and every call respects the rules.  bidding.ts reads the calls as *)
(* BidActions, biddingEngine.ts as Bids.                                   *)

\* The calls that respect the rules after the auction h
NextCalls(h) ==
    LET seat == SeatAfter("NORTH", Len(h))
    IN  UNION { { bidActionOf(UserAt(seat), t, b) :
                    b \in { x \in (IF t = "bid" THEN Bids ELSE {NoBid}) :
                              LegalCall(h, "NORTH", seat, t, x) } } :
                t \in ActionTypes }

RECURSIVE AuctionsOfLen(_)
AuctionsOfLen(n) ==
    IF n = 0 THEN { <<>> }
    ELSE UNION { { Append(h, a) : a \in NextCalls(h) } : h \in AuctionsOfLen(n - 1) }

\* The Bid of biddingEngine.ts for a BidAction of bidding.ts
engineBidOf(a) ==
    [player |-> a.seat,
     type   |-> CASE a.type = "bid" -> "BID" [] a.type = "pass" -> "PASS"
                  [] a.type = "double" -> "DOUBLE" [] a.type = "redouble" -> "REDOUBLE",
     level  |-> a.bid.level,
     suit   |-> a.bid.suit]

engineHistoryOf(h) == [i \in 1..Len(h) |-> engineBidOf(h[i])]

InitAuction ==
    /\ initializeGame /\ EngineIdle /\ PlayIdle /\ NoneInFlight
    /\ \E n \in 0..MaxAuction :
          fnArgs \in [fn : {"isBiddingComplete"}, history : AuctionsOfLen(n)]
    /\ fnResult = <<>>

CalledOf(impl) == \E i \in 1..Len(fnResult) : fnResult[i].impl = impl

\* isBiddingComplete and determineContract of bidding.ts
CallBiddingAuction ==
    /\ "history" \in DOMAIN fnArgs
    /\ ~CalledOf("bidding")
    /\ fnResult' = Append(fnResult,
          [impl     |-> "bidding",
           complete |-> bidding_isBiddingComplete(fnArgs.history),
           settled  |-> bidding_determineContract(fnArgs.history) # NoContract,
           level    |-> bidding_determineContract(fnArgs.history).level,
           suit     |-> bidding_determineContract(fnArgs.history).suit])
    /\ UNCHANGED <<routeVars, engineVars, playVars, fnArgs, raceVars>>

\* isBiddingComplete and determineContract of biddingEngine.ts
CallEngineAuction ==
    /\ "history" \in DOMAIN fnArgs
    /\ ~CalledOf("biddingEngine")
    /\ fnResult' = Append(fnResult,
          [impl     |-> "biddingEngine",
           complete |-> engine_isBiddingComplete(engineHistoryOf(fnArgs.history)),
           settled  |-> engine_determineContract(engineHistoryOf(fnArgs.history))
                          # NoEngineContract,
           level    |-> engine_determineContract(engineHistoryOf(fnArgs.history)).level,
           suit     |-> engine_determineContract(engineHistoryOf(fnArgs.history)).suit])
    /\ UNCHANGED <<routeVars, engineVars, playVars, fnArgs, raceVars>>

NextAuction == CallBiddingAuction \/ CallEngineAuction

SpecAuction == InitAuction /\ [][NextAuction]_vars

ResultOf(impl) == fnResult[CHOOSE i \in 1..Len(fnResult) : fnResult[i].impl = impl]

FourPasses(h) == Len(h) = 4 /\ \A i \in 1..4 : h[i].type = "pass"

\* C36: on every auction the two isBiddingComplete give the same answer;
\* where both determineContract return a contract, its level and its suit
\* are the same; four opening Passes are a completed auction for both.
C36_AuctionsAgree ==
    (CalledOf("bidding") /\ CalledOf("biddingEngine")) =>
        /\ ResultOf("bidding").complete = ResultOf("biddingEngine").complete
        /\ (ResultOf("bidding").settled /\ ResultOf("biddingEngine").settled) =>
              /\ ResultOf("bidding").level = ResultOf("biddingEngine").level
              /\ ResultOf("bidding").suit = ResultOf("biddingEngine").suit
        /\ FourPasses(fnArgs.history) =>
              ResultOf("bidding").complete /\ ResultOf("biddingEngine").complete

----------------------------------------------------------------------------
(* GET of the game state (play/route.ts, lines 299-455).  The games are the *)
(* ones the POST handler stores (lines 114-205) when, after the auction, it *)
(* accepts card after card from the seats on turn.                          *)

\* POST, lines 114-139 and 186-193: the play after one more accepted card
playRoute_accept(play, card, trump) ==
    LET seatOnTurn == findByUserId(gamePlayers, play.currentPlayerId).seat
        newTrick == Append(play.currentTrick,
                           [card |-> card, player |-> play.currentPlayerId,
                            seat |-> seatOnTurn])
        trickComplete == Len(newTrick) = 4
        winner == evaluateTrick(newTrick, trump)
    IN  [currentTrick |-> IF trickComplete THEN <<>> ELSE newTrick,
         tricks |-> IF trickComplete
                    THEN Append(play.tricks, [cards |-> newTrick, winner |-> winner.seat])
                    ELSE play.tricks,
         currentPlayerId |-> IF trickComplete
                             THEN findBySeat(gamePlayers, winner.seat).userId
                             ELSE playRoute_getNextPlayer(gamePlayers,
                                                          play.currentPlayerId).userId]

\* The cards of a hand that are in no trick of the play, as strings
heldOf(hand, play) ==
    LET played == { play.currentTrick[i].card : i \in 1..Len(play.currentTrick) }
                    \cup { play.tricks[t].cards[i].card :
                             t \in 1..Len(play.tricks), i \in 1..4 }
        IsHeld(c) == cardToString(c) \notin played
        held == SelectSeq(hand, IsHeld)
    IN  [i \in 1..Len(held) |-> cardToString(held[i])]

\* The play after n cards: each seat on turn plays the first card of its hand
\* that validateCardPlay accepts
RECURSIVE playAfter(_, _, _, _)
playAfter(play, dealt, trump, n) ==
    IF n = 0 THEN play
    ELSE LET before == playAfter(play, dealt, trump, n - 1)
             seat == findByUserId(gamePlayers, before.currentPlayerId).seat
             held == heldOf(dealt[seat], before)
             first == CHOOSE i \in 1..Len(held) :
                        /\ validateCardPlay(held[i], held, before.currentTrick, trump).valid
                        /\ \A j \in 1..(i - 1) :
                             ~validateCardPlay(held[j], held, before.currentTrick, trump).valid
         IN  playRoute_accept(before, held[first], trump)

InitGameState ==
    \E d \in UserIds, k \in 0..(MaxShuffles - 1), n \in 0..MaxPlayed :
        LET game == gameAfter(newGame, auctionOf(d))
            shuffledDeck == shuffleDeck(createDeck, Draws(k, DeckSize))
            dealt == dealCards(shuffledDeck)
            sorted == [NORTH |-> sortHand(dealt.NORTH), SOUTH |-> sortHand(dealt.SOUTH),
                       EAST |-> sortHand(dealt.EAST), WEST |-> sortHand(dealt.WEST)]
            play == playAfter([currentTrick |-> <<>>, tricks |-> <<>>,
                               currentPlayerId |-> game.currentPlayerId],
                              sorted, game.contract.suit, n)
        IN  /\ boardNumber = InitialBoard
            /\ dealerId = findBySeat(gamePlayers, getDealerForBoard(InitialBoard)).userId
            /\ phase = game.phase
            /\ declarerId = game.declarerId
            /\ bidHistory = game.bidHistory
            /\ currentBid = game.currentBid
            /\ contract = game.contract
            /\ hands = sorted
            /\ deck = [i \in 1..Len(shuffledDeck) |-> cardToString(shuffledDeck[i])]
            /\ currentTrick = play.currentTrick
            /\ tricks = play.tricks
            /\ currentPlayerId = play.currentPlayerId
            /\ gameResult = NoGameResult
            /\ playRequest = NoPlayRequest
            /\ response = Reply(200, "")
            /\ EngineIdle /\ FnIdle /\ NoneInFlight

\* dummyHand = null
NullHand == [null |-> TRUE, cards |-> <<>>]

\* GET, lines 366-411, for the session user `user`
getGameState(user) ==
    LET player == findByUserId(gamePlayers, user)
        declarerPlayer == findByUserId(gamePlayers, declarerId)
        dummyHand ==
            IF phase = "PLAYING" /\ Len(currentTrick) > 0
            THEN IF declarerPlayer # NoPlayerRec
                 THEN [null |-> FALSE, cards |-> hands[getPartnerSeat(declarerPlayer.seat)]]
                 ELSE NullHand
            ELSE NullHand
    IN  IF player = NoPlayerRec
        THEN [status |-> 403, playerSeat |-> "none", dummyHand |-> NullHand]
        ELSE [status |-> 200, playerSeat |-> player.seat, dummyHand |-> dummyHand]

\* GET: the whole handler; it writes nothing
GetGameState ==
    \E user \in Users :
        /\ fnArgs' = [fn |-> "GET", user |-> user]
        /\ fnResult' = <<getGameState(user)>>
        /\ UNCHANGED <<routeVars, engineVars, playVars, raceVars>>

NextGameState == GetGameState \/ PlayRequest

SpecGameState == InitGameState /\ [][NextGameState]_vars

\* A card has been played since the contract was settled
LeadPlayed == phase = "PLAYING" /\ (currentTrick # <<>> \/ tricks # <<>>)

----------------------------------------------------------------------------
(* shuffleDeck of cardUtils.ts, called on its own with the first n cards of *)
(* the deck and two sequences of values of Math.floor(Math.random() *       *)
(* (i + 1)).                                                                *)

\* The sequences of draws for n cards: draws[i] is in 0..i
DrawVectors(n) == { v \in [1..(n - 1) -> 0..(n - 1)] : \A i \in 1..(n - 1) : v[i] <= i }

ShuffleArgs(n) ==
    [fn : {"shuffleDeck"}, deck : {SubSeq(createDeck, 1, n)},
     draws : DrawVectors(n), other : DrawVectors(n)]

InitShuffle ==
    /\ initializeGame /\ EngineIdle /\ PlayIdle /\ NoneInFlight
    /\ \E n \in 0..MaxShuffleCards : fnArgs \in ShuffleArgs(n)
    /\ fnResult = <<>>

\* shuffleDeck(deck) with the draws, and again with the other draws; deck is
\* the array of the caller after the calls
CallShuffleDeck ==
    /\ "draws" \in DOMAIN fnArgs
    /\ fnResult = <<>>
    /\ fnResult' = <<[shuffled      |-> shuffleDeck(fnArgs.deck, fnArgs.draws),
                      otherShuffled |-> shuffleDeck(fnArgs.deck, fnArgs.other),
                      deck          |-> fnArgs.deck]>>
    /\ UNCHANGED <<routeVars, engineVars, playVars, fnArgs, raceVars>>

NextShuffle == CallShuffleDeck

SpecShuffle == InitShuffle /\ [][NextShuffle]_vars

RECURSIVE Factorial(_)
Factorial(n) == IF n <= 1 THEN 1 ELSE n * Factorial(n - 1)

\* b holds the elements of a, each as often as a
IsPermutation(a, b) ==
    /\ Len(a) = Len(b)
    /\ \A x \in { a[i] : i \in 1..Len(a) } :
         Cardinality({ i \in 1..Len(a) : a[i] = x })
           = Cardinality({ i \in 1..Len(b) : b[i] = x })

\* C38: for a deck of n cards and every sequence of choices j_i in [0, i]
\* the result of shuffleDeck is a permutation of the deck, the deck handed
\* in is unchanged, and two different sequences of choices give two
\* different permutations; there are n! sequences of choices, so every
\* permutation comes from exactly one of them.
C38_FisherYates ==
    Returned =>
        /\ IsPermutation(fnArgs.deck, Value.shuffled)
        /\ Value.deck = fnArgs.deck
        /\ fnArgs.draws # fnArgs.other => Value.shuffled # Value.otherShuffled
        /\ Cardinality(DrawVectors(Len(fnArgs.deck))) = Factorial(Len(fnArgs.deck))

\* Four cards, the draws 0, 0, 0: the first card goes to the end
C38_Witness ==
    /\ Returned
    /\ Len(fnArgs.deck) = 4
    /\ fnArgs.draws = <<0, 0, 0>>
    /\ fnArgs.other = <<1, 2, 3>>
    /\ Value.otherShuffled = fnArgs.deck
    /\ Value.shuffled = <<fnArgs.deck[2], fnArgs.deck[3], fnArgs.deck[4], fnArgs.deck[1]>>

----------------------------------------------------------------------------
(* A game room with requests to the join route (POST, invite code), the     *)
(* invitation route (PATCH, accept) and the seat route (PATCH) under way at *)
(* the same time.  A request reads the rows of the room, decides on what it *)
(* read, and writes in a later step; the database refuses a write that      *)
(* breaks unique_seat_per_room or unique_user_per_room of the game_players  *)
(* table, and the request fails.  The room is open (WAITING, not expired)   *)
(* and every user holds a pending invitation to it.                         *)

RoomRequests == 1..MaxRoomRequests

\* ['NORTH', 'SOUTH', 'EAST', 'WEST'] of the join and invitation routes
ROOM_SEATS == <<"NORTH", "SOUTH", "EAST", "WEST">>

NoRoomRequest == [kind |-> "none", user |-> NoPlayer, seat |-> "none",
                  pc |-> "idle", status |-> 0]

\* The game_players rows under no constraint at all
constraintsHold_None(rows) == TRUE

\* CONSTRAINT unique_seat_per_room UNIQUE (game_room_id, seat),
\* CONSTRAINT unique_user_per_room UNIQUE (game_room_id, user_id)
constraintsHold(rows) ==
    \A p, q \in rows :
        p.id # q.id => (p.seat # q.seat /\ p.userId # q.userId)

\* The creator of the room sits SOUTH; the players who joined one after the
\* other sit in the first seats of ROOM_SEATS that were free
roomOf(k) ==
    { [id |-> 10 + i, userId |-> <<"uS", "uN", "uE", "uW">>[i],
       seat |-> <<"SOUTH", "NORTH", "EAST", "WEST">>[i]] : i \in 1..k }

InitRoom ==
    /\ initializeGame /\ EngineIdle /\ PlayIdle /\ FnIdle
    /\ inFlight = [r \in Requests |-> NoRequest]
    /\ \E k \in 1..4 :
         room = [gamePlayers |-> roomOf(k),
                 invitations |-> [u \in Users |-> "PENDING"],
                 requests    |-> [r \in RoomRequests |-> NoRoomRequest]]

\* The requests arrive in the order of their numbers
Arrives(r) ==
    /\ room.requests[r].pc = "idle"
    /\ r > 1 => room.requests[r - 1].pc # "idle"

\* availableSeats: the seats of ROOM_SEATS no row read holds
availableSeats(rows) ==
    LET IsFree(seat) == \A p \in rows : p.seat # seat
    IN  SelectSeq(ROOM_SEATS, IsFree)

Answered(r, kind, user, status) ==
    [room.requests EXCEPT ![r] = [kind |-> kind, user |-> user, seat |-> "none",
                                  pc |-> "done", status |-> status]]

Waiting(r, kind, user, seat, pc) ==
    [room.requests EXCEPT ![r] = [kind |-> kind, user |-> user, seat |-> seat,
                                  pc |-> pc, status |-> 0]]

\* join route, lines 19-85: the request reads the room and its rows and
\* picks the first seat that is free among the rows it read
JoinRead(r) ==
    /\ Arrives(r)
    /\ \E user \in Users :
         LET rows == room.gamePlayers
         IN  room' = [room EXCEPT !.requests =
                 IF Cardinality(rows) >= 4 THEN Answered(r, "join", user, 400)
                 ELSE IF \E p \in rows : p.userId = user
                 THEN Answered(r, "join", user, 200)
                 ELSE IF availableSeats(rows) = <<>>
                 THEN Answered(r, "join", user, 400)
                 ELSE Waiting(r, "join", user, availableSeats(rows)[1], "create")]
    /\ UNCHANGED <<routeVars, engineVars, playVars, fnVars, inFlight>>

\* join route, lines 87-93 and 132-140: gamePlayer.create; an error of the
\* database is answered with 500
JoinCreate(r) ==
    LET req == room.requests[r]
        rows == room.gamePlayers \cup {[id |-> r, userId |-> req.user, seat |-> req.seat]}
    IN  /\ req.kind = "join" /\ req.pc = "create"
        /\ room' = IF constraintsHold(rows)
                   THEN [room EXCEPT !.gamePlayers = rows,
                                     !.requests[r].pc = "done",
                                     !.requests[r].status = 200]
                   ELSE [room EXCEPT !.requests[r].pc = "done",
                                     !.requests[r].status = 500]
        /\ UNCHANGED <<routeVars, engineVars, playVars, fnVars, inFlight>>

\* invitation route, lines 69-131, action 'accept': the request reads the
\* invitation with the room and its rows
AcceptRead(r) ==
    /\ Arrives(r)
    /\ \E user \in Users :
         LET rows == room.gamePlayers
         IN  IF room.invitations[user] # "PENDING"
             THEN room' = [room EXCEPT !.requests = Answered(r, "accept", user, 400)]
             ELSE IF Cardinality(rows) >= 4
             THEN room' = [room EXCEPT !.requests = Answered(r, "accept", user, 400)]
             ELSE IF \E p \in rows : p.userId = user
             THEN room' = [room EXCEPT !.requests = Answered(r, "accept", user, 200),
                                       !.invitations[user] = "ACCEPTED"]
             ELSE IF availableSeats(rows) = <<>>
             THEN room' = [room EXCEPT !.requests = Answered(r, "accept", user, 400)]
             ELSE room' = [room EXCEPT !.requests =
                             Waiting(r, "accept", user, availableSeats(rows)[1], "create")]
    /\ UNCHANGED <<routeVars, engineVars, playVars, fnVars, inFlight>>

\* invitation route, lines 133-147: gamePlayer.create and the update of the
\* invitation in one transaction
AcceptCreate(r) ==
    LET req == room.requests[r]
        rows == room.gamePlayers \cup {[id |-> r, userId |-> req.user, seat |-> req.seat]}
    IN  /\ req.kind = "accept" /\ req.pc = "create"
        /\ room' = IF constraintsHold(rows)
                   THEN [room EXCEPT !.gamePlayers = rows,
                                     !.invitations[req.user] = "ACCEPTED",
                                     !.requests[r].pc = "done",
                                     !.requests[r].status = 200]
                   ELSE [room EXCEPT !.requests[r].pc = "done",
                                     !.requests[r].status = 500]
        /\ UNCHANGED <<routeVars, engineVars, playVars, fnVars, inFlight>>

\* seat route, lines 34-42: the transaction finds the row of the caller
SeatFind(r) ==
    /\ Arrives(r)
    /\ \E user \in Users, seat \in Seats :
         room' = [room EXCEPT !.requests =
             IF \E p \in room.gamePlayers : p.userId = user
             THEN Waiting(r, "seat", user, seat, "found")
             ELSE Answered(r, "seat", user, 404)]
    /\ UNCHANGED <<routeVars, engineVars, playVars, fnVars, inFlight>>

\* seat route, lines 44-55: the transaction looks for another row in the seat
SeatCheck(r) ==
    LET req == room.requests[r]
        seatTaken == \E p \in room.gamePlayers : p.seat = req.seat /\ p.userId # req.user
    IN  /\ req.kind = "seat" /\ req.pc = "found"
        /\ room' = [room EXCEPT !.requests[r].pc = IF seatTaken THEN "done" ELSE "checked",
                                !.requests[r].status = IF seatTaken THEN 409 ELSE 0]
        /\ UNCHANGED <<routeVars, engineVars, playVars, fnVars, inFlight>>

\* seat route, lines 57-62 and 73-80: gamePlayer.update; P2002 is answered
\* with 409
SeatUpdate(r) ==
    LET req == room.requests[r]
        rows == { IF p.userId = req.user THEN [p EXCEPT !.seat = req.seat] ELSE p :
                    p \in room.gamePlayers }
    IN  /\ req.kind = "seat" /\ req.pc = "checked"
        /\ room' = IF constraintsHold(rows)
                   THEN [room EXCEPT !.gamePlayers = rows,
                                     !.requests[r].pc = "done",
                                     !.requests[r].status = 200]
                   ELSE [room EXCEPT !.requests[r].pc = "done",
                                     !.requests[r].status = 409]
        /\ UNCHANGED <<routeVars, engineVars, playVars, fnVars, inFlight>>

NextRoom ==
    \E r \in RoomRequests :
        \/ JoinRead(r) \/ JoinCreate(r)
        \/ AcceptRead(r) \/ AcceptCreate(r)
        \/ SeatFind(r) \/ SeatCheck(r) \/ SeatUpdate(r)

SpecRoom == InitRoom /\ [][NextRoom]_vars

====
